---- MODULE Spec2Model ----
(***************************************************************************)
(* Pool recognition and pricing of charli3-dendrite (CSwap, WingRiders,    *)
(* Splash), modelled from the Python sources.                              *)
(*                                                                         *)
(* An Assets value is a Python dict with insertion order: it is modelled   *)
(* as a sequence of [unit, qty] entries with unique units.  A unit is a    *)
(* record [policy, name]; "lovelace" is the unit with the empty policy.    *)
(***************************************************************************)
EXTENDS Integers, Sequences, FiniteSets, TLC

----------------------------------------------------------------------------
(* Bounds of the model *)

\* quantities a reserve token of a raw record may hold
MaxTokenQty == 3
\* largest identity-token quantity drawn for a raw record
MaxNftQty == 2
\* largest carry balance (treasury, royalty, protocol fee) drawn, in steps
MaxCarry == 2
\* largest reserve and input of the pricing inputs
MaxReserve == 6
MaxDx == 4

----------------------------------------------------------------------------
(* Units *)

Unit(p, n) == [policy |-> p, name |-> n]
Lovelace == Unit("", "lovelace")
\* unit[56:], the hex token name of a unit string
TokenNameHex(u) == IF u.policy = "" THEN "" ELSE u.name
\* len(unit) >= 56
HasPolicy(u) == u.policy # ""

\* a key of the values dict that is not set (no empty Assets is ever supplied)
NoVal == << >>
\* the fee field is a sequence: << f >> for an int, << fx, fy >> for a list
Pending == [err |-> "pending"]

----------------------------------------------------------------------------
(* Assets: ordered bag *)

Entry(u, q) == [unit |-> u, qty |-> q]
EmptyBag == << >>
Units(b) == {b[i].unit : i \in 1..Len(b)}
Has(b, u) == u \in Units(b)
IndexOf(b, u) == CHOOSE i \in 1..Len(b) : b[i].unit = u
Get(b, u) == b[IndexOf(b, u)].qty
\* dict.pop(u)
Pop(b, u) == SelectSeq(b, LAMBDA e : e.unit # u)
\* root[u] = q on an existing key keeps its position; a new key is appended
SetQty(b, u, q) ==
    IF Has(b, u) THEN [i \in 1..Len(b) |-> IF b[i].unit = u THEN Entry(u, q) ELSE b[i]]
    ELSE Append(b, Entry(u, q))
AddQty(b, u, d) == SetQty(b, u, Get(b, u) + d)
\* Assets.unit(index), Assets.quantity(index): 0-based positions
UnitAt(b, i) == b[i + 1].unit
QuantityAt(b, i) == b[i + 1].qty
Single(u, q) == << Entry(u, q) >>

----------------------------------------------------------------------------
(* Units of the raw records *)

TokA == Unit("pa", "aa")
TokB == Unit("pb", "bb")
\* CSwap pool NFTs: any policy, token name "c" (hex 63)
CNft1 == Unit("c1", "63")
CNft2 == Unit("c2", "63")
\* Splash pool NFTs (name ends with hex("nft")) and LP token
SNft == Unit("s1", "6e6674")
SNft2 == Unit("s2", "6e6674")
SLp == Unit("s1", "6c71")
\* WingRiders: dex NFT is policy + "4c", pool NFT shares the policy
WRDex == Unit("wr", "4c")
WRPool == Unit("wr", "01")
W2Dex == Unit("w2", "4c")
W2Pool == Unit("w2", "01")

EndsWithNft(u) == u.name = "6e6674"

----------------------------------------------------------------------------
(* Datum decoding.  A datum blob is a record carrying the schema it was    *)
(* encoded with, or the schema "garbage" for bytes that decode as nothing. *)

Garbage == [schema |-> "garbage"]

DecodeError(class, blob) ==
    IF blob.schema = class THEN "none"
    ELSE IF blob.schema = "garbage" THEN "DeserializeException"
    ELSE "TypeError"

HasField(d, f) == f \in DOMAIN d

----------------------------------------------------------------------------
(* Results of the classmethods working on the values dict *)

Ok(v) == [err |-> "none", v |-> v]
Raise(e, v) == [err |-> e, v |-> v]

ClassificationErrors == {"NotAPoolError", "InvalidLPError", "NoAssetsError", "InvalidPoolError"}

----------------------------------------------------------------------------
(* AbstractPoolState.post_init: the reserve bag holds ADA and one token,   *)
(* or two tokens and the ADA deposit, which is then moved to the end.      *)

BasePostInit(v) ==
    LET assets == v.assets
        nonAda == {u \in Units(assets) : u # Lovelace}
    IN  IF Len(assets) = 2
        THEN IF Cardinality(nonAda) = 1 THEN Ok(v) ELSE Raise("InvalidPoolError", v)
        ELSE IF Len(assets) = 3
        THEN IF Cardinality(nonAda) = 2
             THEN Ok([v EXCEPT !.assets =
                        Append(Pop(assets, Lovelace), Entry(Lovelace, Get(assets, Lovelace)))])
             ELSE Raise("InvalidPoolError", v)
        ELSE IF Len(assets) = 1 /\ Has(assets, Lovelace)
        THEN Raise("NoAssetsError", v)
        ELSE Raise("InvalidPoolError", v)

----------------------------------------------------------------------------
(* CSwap *)

\* the search without the quantity test
CSwapNftCandidatesAnyQty(assets) ==
    {i \in 1..Len(assets) :
        /\ assets[i].unit # Lovelace
        /\ HasPolicy(assets[i].unit)
        /\ TokenNameHex(assets[i].unit) = "63"}

CSwapNftCandidates(assets) ==
    {i \in 1..Len(assets) :
        /\ assets[i].unit # Lovelace
        /\ HasPolicy(assets[i].unit)
        /\ TokenNameHex(assets[i].unit) = "63"
        /\ assets[i].qty = 1}

CSwapExtractPoolNft(v) ==
    IF v.pool_nft # NoVal
    THEN IF QuantityAt(v.pool_nft, 0) # 1
         THEN Raise("NotAPoolError", v)
         ELSE IF ~HasPolicy(UnitAt(v.pool_nft, 0)) \/ TokenNameHex(UnitAt(v.pool_nft, 0)) # "63"
         THEN Raise("NotAPoolError", v)
         ELSE Ok(v)
    ELSE LET found == CSwapNftCandidates(v.assets)
         IN  IF found = {}
             THEN Raise("NotAPoolError", v)
             ELSE LET i == CHOOSE j \in found : \A k \in found : j <= k
                      u == v.assets[i].unit
                  IN  Ok([v EXCEPT !.pool_nft = Single(u, v.assets[i].qty),
                                   !.assets = Pop(v.assets, u)])

CSwapSkipInit(v) == [skip |-> v.pool_nft # NoVal, err |-> "none", v |-> v]

CSwapMaintenance == 2000000
CSwapPlatformFee == 15
CSwapDefaultFee == 85

CSwapPostInit(v) ==
    LET b == BasePostInit(v)
    IN  IF b.err # "none" THEN b
        ELSE IF ~Has(b.v.assets, Lovelace) THEN Raise("NotAPoolError", b.v)
        ELSE LET a1 == IF Len(b.v.assets) = 2
                       THEN AddQty(b.v.assets, Lovelace, -CSwapMaintenance)
                       ELSE b.v.assets
                 fee == IF DecodeError("CSwapPoolDatum", v.datum_cbor) = "none"
                        THEN v.datum_cbor.pool_fee + CSwapPlatformFee
                        ELSE CSwapDefaultFee + CSwapPlatformFee
             IN  Ok([b.v EXCEPT !.assets = a1, !.fee = << fee >>])

----------------------------------------------------------------------------
(* Splash *)

LIQUIDITY_THRESHOLD == 100000000
SplashFeeBasis == 100000

SplashClasses == {"SplashSSPState", "SplashCPPState", "SplashCPPBidirState", "SplashCPPRoyaltyState"}

SplashPoolDatumClass(cls) ==
    CASE cls = "SplashSSPState" -> "SplashSSPPoolDatum"
      [] cls = "SplashCPPState" -> "SplashCPPPoolDatum"
      [] cls = "SplashCPPBidirState" -> "SplashCPPBidirPoolDatum"
      [] cls = "SplashCPPRoyaltyState" -> "SplashCPPRoyaltyPoolDatum"

SplashExtractPoolNft(cls, v) ==
    LET derr == DecodeError(SplashPoolDatumClass(cls), v.datum_cbor)
    IN  IF derr # "none" THEN Raise(derr, v)
        ELSE LET nft == v.datum_cbor.pool_nft
             IN  IF v.pool_nft # NoVal
                 THEN IF QuantityAt(v.pool_nft, 0) # 1 \/ ~EndsWithNft(UnitAt(v.pool_nft, 0))
                      THEN Raise("NotAPoolError", v)
                      ELSE Ok(v)
                 ELSE IF ~Has(v.assets, nft)
                      THEN Raise("NotAPoolError", v)
                      ELSE Ok([v EXCEPT !.pool_nft = Single(nft, Get(v.assets, nft)),
                                        !.assets = Pop(v.assets, nft)])

\* skip_init without the membership test of the LP unit
SplashSkipInitNoLp(cls, v) ==
    IF v.pool_nft # NoVal /\ v.lp_tokens # NoVal
    THEN LET derr == DecodeError(SplashPoolDatumClass(cls), v.datum_cbor)
         IN  IF derr = "DeserializeException"
             THEN [skip |-> FALSE, err |-> "NotAPoolError", v |-> v]
             ELSE IF derr # "none"
             THEN [skip |-> FALSE, err |-> derr, v |-> v]
             ELSE IF ~Has(v.pool_nft, v.datum_cbor.pool_nft)
             THEN [skip |-> FALSE, err |-> "NotAPoolError", v |-> v]
             ELSE [skip |-> TRUE, err |-> "none", v |-> v]
    ELSE [skip |-> FALSE, err |-> "none", v |-> v]

SplashSkipInit(cls, v) ==
    IF v.pool_nft # NoVal /\ v.lp_tokens # NoVal
    THEN LET derr == DecodeError(SplashPoolDatumClass(cls), v.datum_cbor)
         IN  IF derr = "DeserializeException"
             THEN [skip |-> FALSE, err |-> "NotAPoolError", v |-> v]
             ELSE IF derr # "none"
             THEN [skip |-> FALSE, err |-> derr, v |-> v]
             ELSE IF ~Has(v.pool_nft, v.datum_cbor.pool_nft)
             THEN [skip |-> FALSE, err |-> "NotAPoolError", v |-> v]
             ELSE IF ~Has(v.lp_tokens, v.datum_cbor.lp_token)
             THEN [skip |-> FALSE, err |-> "NotAPoolError", v |-> v]
             ELSE [skip |-> TRUE, err |-> "none", v |-> v]
    ELSE [skip |-> FALSE, err |-> "none", v |-> v]

SplashExtractLpTokens(cls, v) ==
    LET derr == DecodeError(SplashPoolDatumClass(cls), v.datum_cbor)
    IN  IF derr # "none" THEN Raise(derr, v)
        ELSE LET lp == v.datum_cbor.lp_token
             IN  IF v.lp_tokens # NoVal THEN Ok(v)
                 ELSE IF ~Has(v.assets, lp)
                      THEN Raise("InvalidLPError", v)
                      ELSE Ok([v EXCEPT !.lp_tokens = Single(lp, Get(v.assets, lp)),
                                        !.assets = Pop(v.assets, lp)])

\* assets.root[assets.unit(0)] -= x; assets.root[assets.unit(1)] -= y
SubtractCarry(assets, x, y) ==
    AddQty(AddQty(assets, UnitAt(assets, 0), -x), UnitAt(assets, 1), -y)

SplashSSPPostInit(v) ==
    LET b == BasePostInit(v)
    IN  IF b.err # "none" THEN b
        ELSE LET derr == DecodeError("SplashSSPPoolDatum", v.datum_cbor)
                 d == v.datum_cbor
             IN  IF derr # "none" THEN Raise(derr, b.v)
                 ELSE LET a1 == SubtractCarry(b.v.assets, d.protocol_fee_x, d.protocol_fee_y)
                      IN  Ok([b.v EXCEPT !.fee = << d.lp_fee_num + d.protocol_fee_num >>,
                                         !.assets = a1,
                                         !.inactive = QuantityAt(a1, 0) < LIQUIDITY_THRESHOLD])

\* SplashCPPState.post_init, also reached through super() by the two subclasses
SplashCPPPostInit(cls, v) ==
    LET b == BasePostInit(v)
    IN  IF b.err # "none" THEN b
        ELSE LET derr == DecodeError(SplashPoolDatumClass(cls), v.datum_cbor)
                 d == v.datum_cbor
             IN  IF derr # "none" THEN Raise(derr, b.v)
                 ELSE IF ~HasField(d, "pool_fee") THEN Raise("AttributeError", b.v)
                 ELSE LET a1 == SubtractCarry(b.v.assets, d.treasury_x, d.treasury_y)
                      IN  Ok([b.v EXCEPT !.fee = << SplashFeeBasis - d.pool_fee + d.treasury_fee >>,
                                         !.assets = a1,
                                         !.inactive = QuantityAt(a1, 0) < LIQUIDITY_THRESHOLD])

SplashCPPBidirPostInit(v) ==
    LET s == SplashCPPPostInit("SplashCPPBidirState", v)
    IN  IF s.err # "none" THEN s
        ELSE LET derr == DecodeError("SplashCPPBidirPoolDatum", v.datum_cbor)
                 d == v.datum_cbor
             IN  IF derr # "none" THEN Raise(derr, s.v)
                 ELSE LET a1 == SubtractCarry(s.v.assets, d.treasury_x, d.treasury_y)
                      IN  Ok([s.v EXCEPT !.fee = << SplashFeeBasis - d.pool_fee_x + d.treasury_fee,
                                                    SplashFeeBasis - d.pool_fee_y + d.treasury_fee >>,
                                         !.assets = a1,
                                         !.inactive = QuantityAt(a1, 0) < LIQUIDITY_THRESHOLD])

SplashCPPRoyaltyPostInit(v) ==
    LET s == SplashCPPPostInit("SplashCPPRoyaltyState", v)
    IN  IF s.err # "none" THEN s
        ELSE LET derr == DecodeError("SplashCPPRoyaltyPoolDatum", v.datum_cbor)
                 d == v.datum_cbor
             IN  IF derr # "none" THEN Raise(derr, s.v)
                 ELSE Ok([s.v EXCEPT !.fee = << s.v.fee[1] + d.royalty_fee >>,
                                     !.assets = SubtractCarry(s.v.assets, d.royalty_x, d.royalty_y)])

SplashPostInit(cls, v) ==
    CASE cls = "SplashSSPState" -> SplashSSPPostInit(v)
      [] cls = "SplashCPPState" -> SplashCPPPostInit(cls, v)
      [] cls = "SplashCPPBidirState" -> SplashCPPBidirPostInit(v)
      [] cls = "SplashCPPRoyaltyState" -> SplashCPPRoyaltyPostInit(v)

----------------------------------------------------------------------------
(* Python arithmetic *)

Abs(x) == IF x < 0 THEN -x ELSE x
\* int(a / b): true division, then truncation toward zero.  The quotient of
\* two integers is exact in binary64 up to 2^53, beyond every value drawn here.
TrueDivInt(a, b) ==
    IF (a < 0) = (b < 0) THEN Abs(a) \div Abs(b) ELSE -(Abs(a) \div Abs(b))
\* a // b for b > 0
FloorDiv(a, b) == a \div b

----------------------------------------------------------------------------
(* WingRiders *)

WRMinAda == 3000000

\* AbstractPoolState.extract_dex_nft for a class with a dex policy
BaseExtractDexNft(dexUnit, v) ==
    IF v.dex_nft # NoVal THEN Ok(v)
    ELSE IF ~Has(v.assets, dexUnit) THEN Raise("NotAPoolError", v)
    ELSE Ok([v EXCEPT !.dex_nft = Single(dexUnit, Get(v.assets, dexUnit)),
                      !.assets = Pop(v.assets, dexUnit)])

\* AbstractPoolState.extract_pool_nft for a class with a pool policy
BaseExtractPoolNft(policy, v) ==
    IF v.pool_nft # NoVal THEN Ok(v)
    ELSE LET found == {i \in 1..Len(v.assets) : v.assets[i].unit.policy = policy}
         IN  IF found = {} THEN Raise("NotAPoolError", v)
             ELSE LET i == CHOOSE j \in found : \A k \in found : j <= k
                      u == v.assets[i].unit
                  IN  IF v.assets[i].qty # 1 THEN Raise("NotAPoolError", v)
                      ELSE Ok([v EXCEPT !.pool_nft = Single(u, 1), !.assets = Pop(v.assets, u)])

MoveLovelaceToEnd(assets) ==
    Append(Pop(assets, Lovelace), Entry(Lovelace, Get(assets, Lovelace)))

WingRidersSkipInit(v) ==
    IF v.pool_nft # NoVal /\ v.dex_nft # NoVal
    THEN IF ~Has(v.dex_nft, WRDex)
         THEN [skip |-> FALSE, err |-> "NotAPoolError", v |-> v]
         ELSE [skip |-> TRUE, err |-> "none",
               v |-> IF Len(v.assets) = 3
                     THEN [v EXCEPT !.assets = MoveLovelaceToEnd(v.assets)]
                     ELSE v]
    ELSE [skip |-> FALSE, err |-> "none", v |-> v]

WingRidersPostInit(v) ==
    LET b == BasePostInit(v)
    IN  IF b.err # "none" THEN b
        ELSE LET derr == DecodeError("WingRidersPoolDatum", v.datum_cbor)
                 d == v.datum_cbor
             IN  IF derr # "none" THEN Raise(derr, b.v)
                 ELSE LET a0 == IF Len(b.v.assets) = 2
                                THEN AddQty(b.v.assets, UnitAt(b.v.assets, 0), -WRMinAda)
                                ELSE b.v.assets
                      IN  Ok([b.v EXCEPT !.assets = SubtractCarry(a0, d.quantity_a, d.quantity_b)])

\* WingRidersV2CPPState._post_init for cls = WingRidersV2CPPState
WingRidersV2UnderPostInit(v) ==
    LET b == BasePostInit(v)
    IN  IF b.err # "none" THEN b
        ELSE LET ss == DecodeError("WingRidersV2SSPoolDatum", v.datum_cbor)
             IN  IF ss = "none" THEN Raise("NotAPoolError", b.v)
                 ELSE IF ss # "TypeError" THEN Raise(ss, b.v)
                 ELSE LET derr == DecodeError("WingRidersV2PoolDatum", v.datum_cbor)
                          d == v.datum_cbor
                      IN  IF derr # "none" THEN Raise(derr, b.v)
                          ELSE Ok([b.v EXCEPT !.fee =
                                << TrueDivInt((d.swap_fee_in_basis + d.protocol_fee_in_basis
                                               + d.project_fee_in_basis) * 10000, d.fee_basis) >>])

WingRidersV2SkipInit(v) ==
    IF v.pool_nft # NoVal /\ v.dex_nft # NoVal
    THEN IF ~Has(v.dex_nft, W2Dex)
         THEN [skip |-> FALSE, err |-> "NotAPoolError", v |-> v]
         ELSE LET p == WingRidersV2UnderPostInit(v)
              IN  [skip |-> p.err = "none", err |-> p.err, v |-> p.v]
    ELSE [skip |-> FALSE, err |-> "none", v |-> v]

WingRidersV2PostInit(v) ==
    LET p == WingRidersV2UnderPostInit(v)
    IN  IF p.err # "none" THEN p
        ELSE LET d == v.datum_cbor
                 a0 == IF Len(p.v.assets) = 2
                       THEN AddQty(p.v.assets, UnitAt(p.v.assets, 0), -WRMinAda)
                       ELSE p.v.assets
             IN  Ok([p.v EXCEPT !.assets = SubtractCarry(a0,
                        d.treasury_a + d.project_treasury_a + d.reserve_treasury_a,
                        d.treasury_b + d.project_treasury_b + d.reserve_treasury_b)])

----------------------------------------------------------------------------
(* Dispatch over the pool classes *)

PoolClasses == {"CSwapCPPState", "WingRidersCPPState", "WingRidersV2CPPState"} \cup SplashClasses

PoolDatumClass(cls) ==
    CASE cls = "CSwapCPPState" -> "CSwapPoolDatum"
      [] cls = "WingRidersCPPState" -> "WingRidersPoolDatum"
      [] cls = "WingRidersV2CPPState" -> "WingRidersV2PoolDatum"
      [] OTHER -> SplashPoolDatumClass(cls)

SkipInit(cls, v) ==
    CASE cls = "CSwapCPPState" -> CSwapSkipInit(v)
      [] cls = "WingRidersCPPState" -> WingRidersSkipInit(v)
      [] cls = "WingRidersV2CPPState" -> WingRidersV2SkipInit(v)
      [] OTHER -> SplashSkipInit(cls, v)

ExtractDexNft(cls, v) ==
    CASE cls = "WingRidersCPPState" -> BaseExtractDexNft(WRDex, v)
      [] cls = "WingRidersV2CPPState" -> BaseExtractDexNft(W2Dex, v)
      [] OTHER -> Ok(v)

ExtractPoolNft(cls, v) ==
    CASE cls = "CSwapCPPState" -> CSwapExtractPoolNft(v)
      [] cls = "WingRidersCPPState" -> BaseExtractPoolNft("wr", v)
      [] cls = "WingRidersV2CPPState" -> BaseExtractPoolNft("w2", v)
      [] OTHER -> SplashExtractPoolNft(cls, v)

ExtractLpTokens(cls, v) ==
    IF cls \in SplashClasses THEN SplashExtractLpTokens(cls, v) ELSE Ok(v)

PostInit(cls, v) ==
    CASE cls = "CSwapCPPState" -> CSwapPostInit(v)
      [] cls = "WingRidersCPPState" -> WingRidersPostInit(v)
      [] cls = "WingRidersV2CPPState" -> WingRidersV2PostInit(v)
      [] OTHER -> SplashPostInit(cls, v)

\* AbstractPoolState.translate_address, the validator run by model_validate:
\* skip when the identity tokens are supplied, else decode, identify,
\* extract, normalise.
TranslateAddress(cls, v) ==
    LET sk == SkipInit(cls, v)
    IN  IF sk.err # "none" THEN Raise(sk.err, sk.v)
        ELSE IF sk.skip THEN Ok(sk.v)
        ELSE IF DecodeError(PoolDatumClass(cls), v.datum_cbor) # "none"
        THEN Raise("NotAPoolError", v)
        ELSE LET r1 == ExtractDexNft(cls, v)
             IN  IF r1.err # "none" THEN r1
                 ELSE LET r2 == ExtractLpTokens(cls, r1.v)
                      IN  IF r2.err # "none" THEN r2
                          ELSE LET r3 == ExtractPoolNft(cls, r2.v)
                               IN  IF r3.err # "none" THEN r3
                                   ELSE PostInit(cls, r3.v)

----------------------------------------------------------------------------
(* Pricing of the Splash constant-product pools.  A pool state is          *)
(* [cls, assets, fee, pool_datum]; an asked asset is one [unit, qty].      *)

\* the attributes of an Assets value: an ordered dict with unit(i), quantity(i)
AssetsAttributes == {"root", "unit", "quantity", "keys", "values", "items"}

\* AbstractConstantProductPoolState.get_amount_out:
\* amount_out = floor(ry * dxf / (rx * fee_basis + dxf)), dxf = dx * (fee_basis - f),
\* f chosen by the sold side when the fee is a pair
BaseGetAmountOut(pool, asset) ==
    LET unit_a == UnitAt(pool.assets, 0)
        unit_b == UnitAt(pool.assets, 1)
    IN  IF asset.unit \notin {unit_a, unit_b}
        THEN [err |-> "AssertionError"]
        ELSE LET sellA == asset.unit = unit_a
                 rin == IF sellA THEN QuantityAt(pool.assets, 0) ELSE QuantityAt(pool.assets, 1)
                 rout == IF sellA THEN QuantityAt(pool.assets, 1) ELSE QuantityAt(pool.assets, 0)
                 f == IF Len(pool.fee) = 1 THEN pool.fee[1]
                      ELSE IF sellA THEN pool.fee[1] ELSE pool.fee[2]
                 dxf == asset.qty * (SplashFeeBasis - f)
                 den == rin * SplashFeeBasis + dxf
             IN  IF den = 0 THEN [err |-> "ZeroDivisionError"]
                 ELSE [err |-> "none",
                       unit |-> IF sellA THEN unit_b ELSE unit_a,
                       qty |-> FloorDiv(rout * dxf, den)]

\* the check with its second inequality left out
SplashInvariantFirstOnly(dx, dy, rx, ry, fee) ==
    (-dy) * (rx * 100000 + dx * fee) <= ry * (dx * fee)

\* -dy*(rx*100000 + dxf) <= ry*dxf and -dx*(ry*100000 + dyf) <= rx*dyf
SplashInvariantOk(dx, dy, rx, ry, fee) ==
    /\ (-dy) * (rx * 100000 + dx * fee) <= ry * (dx * fee)
    /\ (-dx) * (ry * 100000 + dy * fee) <= rx * (dy * fee)

SplashCPPTreasuryX(pool) ==
    IF pool.cls = "SplashCPPRoyaltyState"
    THEN pool.pool_datum.treasury_x + pool.pool_datum.royalty_x
    ELSE pool.pool_datum.treasury_x

SplashCPPTreasuryY(pool) ==
    IF pool.cls = "SplashCPPRoyaltyState"
    THEN pool.pool_datum.treasury_y + pool.pool_datum.royalty_y
    ELSE pool.pool_datum.treasury_y

\* a quote of one unit more than the amount that passed the checks
SplashCPPGetAmountOutOverQuote(pool, asset) ==
    LET b == BaseGetAmountOut(pool, asset)
    IN  IF b.err # "none" THEN [err |-> b.err]
        ELSE IF Len(pool.fee) # 1 /\ "unit_a" \notin AssetsAttributes
        THEN [err |-> "AttributeError"]
        ELSE LET sel == IF Len(pool.fee) = 1 THEN pool.fee[1]
                        ELSE IF asset.unit = UnitAt(pool.assets, 0)
                             THEN pool.fee[1] ELSE pool.fee[2]
                 fee == 100000 - sel
                 dx == asset.qty
                 dxf == dx * fee
                 rx == Get(pool.assets, asset.unit)
                 ry == IF asset.unit = UnitAt(pool.assets, 0)
                       THEN QuantityAt(pool.assets, 1) ELSE QuantityAt(pool.assets, 0)
                 first == SplashInvariantOk(dx, -b.qty, rx, ry, fee)
                 out == IF first THEN b.qty
                        ELSE TrueDivInt(ry * dxf, rx * 100000 + dxf)
             IN  IF ~first /\ ~SplashInvariantOk(dx, -out, rx, ry, fee)
                 THEN [err |-> "ValueError"]
                 ELSE [err |-> "none", unit |-> b.unit, qty |-> out + 1, provisional |-> b.qty,
                       rx |-> rx, ry |-> ry, fee |-> fee]

\* SplashCPPState.get_amount_out; the result also records the locals rx, ry
\* and fee the checks were made with
SplashCPPGetAmountOut(pool, asset) ==
    LET b == BaseGetAmountOut(pool, asset)
    IN  IF b.err # "none" THEN [err |-> b.err]
        ELSE IF Len(pool.fee) # 1 /\ "unit_a" \notin AssetsAttributes
        THEN [err |-> "AttributeError"]
        ELSE LET sel == IF Len(pool.fee) = 1 THEN pool.fee[1]
                        ELSE IF asset.unit = UnitAt(pool.assets, 0)
                             THEN pool.fee[1] ELSE pool.fee[2]
                 fee == 100000 - sel
                 dx == asset.qty
                 dxf == dx * fee
                 rx == Get(pool.assets, asset.unit)
                 ry == IF asset.unit = UnitAt(pool.assets, 0)
                       THEN QuantityAt(pool.assets, 1) ELSE QuantityAt(pool.assets, 0)
                 first == SplashInvariantOk(dx, -b.qty, rx, ry, fee)
                 out == IF first THEN b.qty
                        ELSE TrueDivInt(ry * dxf, rx * 100000 + dxf)
             IN  IF ~first /\ ~SplashInvariantOk(dx, -out, rx, ry, fee)
                 THEN [err |-> "ValueError"]
                 ELSE [err |-> "none", unit |-> b.unit, qty |-> out, provisional |-> b.qty,
                       rx |-> rx, ry |-> ry, fee |-> fee]

\* pools to price: reserves may be zero or negative after normalization,
\* and the fees are whatever the datum held
PriceFees == {350, -450}
PricePools(c) ==
    {[cls |-> c,
      assets |-> << Entry(Lovelace, ra), Entry(TokA, rb) >>,
      fee |-> IF c = "SplashCPPBidirState" THEN << f, f + 700 >> ELSE << f >>,
      pool_datum |-> [treasury_x |-> tx, treasury_y |-> ty,
                      royalty_x |-> IF c = "SplashCPPRoyaltyState" THEN ro ELSE 0,
                      royalty_y |-> 0]] :
        ra \in -1..MaxReserve, rb \in -1..MaxReserve, f \in PriceFees,
        tx \in 0..1, ty \in 0..1, ro \in 0..1}

PriceAsks == {Entry(u, q) : u \in {Lovelace, TokA, TokB}, q \in 1..MaxDx}

NoPool == [cls |-> "none"]
NoAsk == Entry(Lovelace, 0)

----------------------------------------------------------------------------
(* Raw records.  Every ledger output holds lovelace; the other units are   *)
(* listed in the order Assets sorts them in, absent when the quantity is 0.*)

MkBag(seq) == SelectSeq(seq, LAMBDA e : e.qty # 0)

\* below 2 ADA, just above 3 ADA, just above the Splash liquidity floor
LovelaceQtys == {1000000, 3000001, 100000001}
\* quantities of the two reserve tokens
TokenPairs == {<<0, 0>>, <<1, 1>>} \cup {<<q, 0>> : q \in 1..MaxTokenQty}
LpQty == 5

Values(assets, blob, nft, lp, dex) ==
    [assets |-> assets, datum_cbor |-> blob, pool_nft |-> nft, lp_tokens |-> lp,
     dex_nft |-> dex, fee |-> NoVal, inactive |-> FALSE]

CSwapBlobs == {Garbage} \cup {[schema |-> "CSwapPoolDatum", pool_fee |-> f] : f \in {30, 85}}

CSwapRaw ==
    {Values(MkBag(<< Entry(Lovelace, l), Entry(CNft1, n1), Entry(CNft2, n2),
                     Entry(TokA, t[1]), Entry(TokB, t[2]) >>), blob, nft, NoVal, NoVal) :
        l \in LovelaceQtys, n1 \in 0..MaxNftQty, n2 \in 0..MaxNftQty, t \in TokenPairs,
        blob \in CSwapBlobs,
        nft \in {NoVal, Single(CNft1, 1), Single(CNft1, 2), Single(TokA, 1)}}

SplashBlobs(cls) ==
    {Garbage} \cup
    CASE cls = "SplashSSPState" ->
            {[schema |-> "SplashSSPPoolDatum", pool_nft |-> n, lp_token |-> SLp,
              lp_fee_num |-> 100, protocol_fee_num |-> 50,
              multiplier_x |-> 1, multiplier_y |-> 1,
              protocol_fee_x |-> x, protocol_fee_y |-> y] :
                n \in {SNft, SNft2}, x \in 0..MaxCarry, y \in 0..1}
      [] cls = "SplashCPPState" ->
            {[schema |-> "SplashCPPPoolDatum", pool_nft |-> n, lp_token |-> SLp,
              pool_fee |-> 99700, treasury_fee |-> 50,
              treasury_x |-> x, treasury_y |-> y] :
                n \in {SNft, SNft2}, x \in 0..MaxCarry, y \in 0..1}
      [] cls = "SplashCPPBidirState" ->
            {[schema |-> "SplashCPPBidirPoolDatum", pool_nft |-> n, lp_token |-> SLp,
              pool_fee_x |-> 99700, pool_fee_y |-> 99000, treasury_fee |-> 50,
              treasury_x |-> x, treasury_y |-> y] :
                n \in {SNft, SNft2}, x \in 0..MaxCarry, y \in 0..1}
      [] cls = "SplashCPPRoyaltyState" ->
            {[schema |-> "SplashCPPRoyaltyPoolDatum", pool_nft |-> n, lp_token |-> SLp,
              pool_fee |-> 99700, treasury_fee |-> 50, royalty_fee |-> 20,
              treasury_x |-> x, treasury_y |-> y, royalty_x |-> rx, royalty_y |-> 0] :
                n \in {SNft, SNft2}, x \in 0..MaxCarry, y \in 0..1, rx \in 0..MaxCarry}

SplashSupplied ==
    {<<NoVal, NoVal>>, <<Single(SNft, 1), NoVal>>, <<Single(SNft2, 1), NoVal>>,
     <<Single(SNft, 1), Single(SLp, LpQty)>>, <<Single(SNft2, 1), Single(SLp, LpQty)>>,
     <<Single(SNft, 2), Single(SLp, LpQty)>>}

SplashRaw(cls) ==
    {Values(MkBag(<< Entry(Lovelace, l), Entry(TokA, t[1]), Entry(TokB, t[2]),
                     Entry(SLp, lp), Entry(SNft, n1), Entry(SNft2, n2) >>),
            blob, sup[1], sup[2], NoVal) :
        l \in LovelaceQtys, t \in TokenPairs, lp \in {0, LpQty},
        n1 \in 0..MaxNftQty, n2 \in 0..1, blob \in SplashBlobs(cls), sup \in SplashSupplied}

WingRidersBlobs ==
    {Garbage} \cup
    {[schema |-> "WingRidersPoolDatum", quantity_a |-> x, quantity_b |-> y] :
        x \in 0..MaxCarry, y \in 0..1}

WingRidersRaw ==
    {Values(MkBag(<< Entry(Lovelace, l), Entry(TokA, t[1]), Entry(TokB, t[2]),
                     Entry(WRPool, n), Entry(WRDex, d) >>),
            blob, sup[1], NoVal, sup[2]) :
        l \in LovelaceQtys, t \in TokenPairs, n \in 0..MaxNftQty, d \in 0..1,
        blob \in WingRidersBlobs,
        sup \in {<<NoVal, NoVal>>, <<Single(WRPool, 1), Single(WRDex, 1)>>}}

WingRidersV2Blobs ==
    {Garbage} \cup
    {[schema |-> sch, swap_fee_in_basis |-> 30, protocol_fee_in_basis |-> 5,
      project_fee_in_basis |-> 0, fee_basis |-> 10000,
      treasury_a |-> x, treasury_b |-> y, project_treasury_a |-> p,
      project_treasury_b |-> 0, reserve_treasury_a |-> 0, reserve_treasury_b |-> 0] :
        sch \in {"WingRidersV2PoolDatum", "WingRidersV2SSPoolDatum"},
        x \in 0..MaxCarry, y \in 0..1, p \in 0..1}

WingRidersV2Raw ==
    {Values(MkBag(<< Entry(Lovelace, l), Entry(TokA, t[1]), Entry(TokB, t[2]),
                     Entry(W2Pool, n), Entry(W2Dex, d) >>),
            blob, sup[1], NoVal, sup[2]) :
        l \in LovelaceQtys, t \in TokenPairs, n \in 0..MaxNftQty, d \in 0..1,
        blob \in WingRidersV2Blobs,
        sup \in {<<NoVal, NoVal>>, <<Single(W2Pool, 1), Single(W2Dex, 1)>>}}

RawRecords(cls) ==
    CASE cls = "CSwapCPPState" -> CSwapRaw
      [] cls = "WingRidersCPPState" -> WingRidersRaw
      [] cls = "WingRidersV2CPPState" -> WingRidersV2Raw
      [] OTHER -> SplashRaw(cls)

----------------------------------------------------------------------------
(* State: one raw record of one pool class, the outcome of model_validate  *)
(* on it, the outcome of a direct extract_pool_nft call on it, and the     *)
(* outcome of validating it again with the extracted tokens supplied.      *)

\* pool, ask, quote: a pool state, the asset offered to it, and the outcome of
\* get_amount_out
VARIABLES cls, raw, res, nftRes, res2, pool, ask, quote

\* heap, swapOut: the objects a swap_utxo call reads and writes, and what it
\* returned
VARIABLES heap, swapOut

swapVars == << heap, swapOut >>

\* order, gyOut, gyIn: a GeniusYield order state, the outcome of get_amount_out
\* on it and the outcome of get_amount_in on that quote
VARIABLES order, gyOut, gyIn

quoteVars == << order, gyOut, gyIn >>

NoOrder == [cls |-> "none"]

IdleQuote == order = NoOrder /\ gyOut = Pending /\ gyIn = Pending

\* the variables of the trade-building and order-book parts
\* stableswap classes: the class attribute asset_mulitipliers of each class,
\* the pool states handed out so far and the scales each later call used
VARIABLES asset_mulitipliers, states, used
scaleVars == << asset_mulitipliers, states, used >>

SSPClasses == {"SplashSSPState", "WingRidersV2SSPState"}

\* WingRidersV2SSPState.asset_mulitipliers: ClassVar[list[int]] = [1, 1]
DefaultMultipliers == [c \in SSPClasses |-> << 1, 1 >>]

IdleScale == asset_mulitipliers = DefaultMultipliers /\ states = << >> /\ used = << >>

\* threads calling into one order state: where each thread is in its call,
\* the locals of the call, the lru_cache of the two quoting methods, the
\* values of self.fee the fee computations read, what the calls returned and
\* how many calls were made
VARIABLES pc, frame, cache, observed, returned, calls
threadVars == << pc, frame, cache, observed, returned, calls >>

Threads == {1, 2}
NoFrame == [op |-> "none"]

IdleThreads ==
    /\ pc = [t \in Threads |-> "idle"]
    /\ frame = [t \in Threads |-> NoFrame]
    /\ cache = {}
    /\ observed = {}
    /\ returned = {}
    /\ calls = 0

\* the order book: the clock that time.time() reads, in seconds, the order
\* states parsed so far and the book get_book returned
VARIABLES now, orders, book
bookVars == << now, orders, book >>

IdleBook == now = 0 /\ orders = << >> /\ book = Pending

\* absent: None
None == [none |-> TRUE]

\* one call of GeniusYieldOrderBook.swap_utxo: where the call is (mpc), the
\* position of the next order of the chosen side (idx), the locals in_total,
\* fee_txo, fee_datum, txo and datum, the transaction builder, the error the
\* call raised, and what each visit of an order did (fills)
VARIABLES mpc, idx, in_total, fee_txo, fee_datum, txo, datum, tx_builder, raised, fills
matchVars == << mpc, idx, in_total, fee_txo, fee_datum, txo, datum, tx_builder, raised, fills >>

EmptyBuilder == [minting |-> << >>, mint |-> << >>, inputs |-> << >>, outputs |-> << >>]

IdleMatch ==
    /\ mpc = "idle"
    /\ idx = 1
    /\ in_total = NoAsk
    /\ fee_txo = None
    /\ fee_datum = None
    /\ txo = None
    /\ datum = None
    /\ tx_builder = EmptyBuilder
    /\ raised = "none"
    /\ fills = << >>

\* one call of a method that only computes: the method and its arguments
\* (arg) and what it returned or raised (ret)
VARIABLES arg, ret
callVars == << arg, ret >>

NoArg == [op |-> "none"]
IdleCall == arg = NoArg /\ ret = Pending

restVars == << matchVars, callVars >>
IdleRest == IdleMatch /\ IdleCall

engineVars == << scaleVars, threadVars, bookVars, restVars >>
IdleEngine == IdleScale /\ IdleThreads /\ IdleBook /\ IdleRest

tradeVars == << swapVars, quoteVars, engineVars >>

vars == << cls, raw, res, nftRes, res2, pool, ask, quote, tradeVars >>

\* the objects of one swap_utxo call: the state's own assets and datum, and the
\* locals the method binds
SwapRefs == {"self.assets", "self.pool_datum", "self.order_datum", "self.fee",
             "pool_datum", "assets", "new_assets", "new_pool_datum",
             "order_datum", "fee_datum"}

NoHeap == [r \in SwapRefs |-> NoVal]

IdleSwap == heap = NoHeap /\ swapOut = Pending

IdleTrade == IdleSwap /\ IdleQuote /\ IdleEngine

Init ==
    /\ cls \in PoolClasses
    /\ raw \in RawRecords(cls)
    /\ res = Pending
    /\ nftRes = Pending
    /\ res2 = Pending
    /\ pool = NoPool
    /\ ask = NoAsk
    /\ quote = Pending
    /\ IdleTrade

\* cls.model_validate(record)
Parse ==
    /\ res = Pending
    /\ res' = TranslateAddress(cls, raw)
    /\ UNCHANGED << cls, raw, nftRes, res2, pool, ask, quote, tradeVars >>

\* cls.extract_pool_nft(values) on the record as it came in
ExtractPoolNftCall ==
    /\ nftRes = Pending
    /\ nftRes' = ExtractPoolNft(cls, raw)
    /\ UNCHANGED << cls, raw, res, res2, pool, ask, quote, tradeVars >>

NoneSupplied(v) == v.pool_nft = NoVal /\ v.lp_tokens = NoVal /\ v.dex_nft = NoVal

\* the same record with the identity tokens found by the first parse
\* supplied; the caller may or may not have taken them out of the assets
Supplied(v, parsed, stripped) ==
    [v EXCEPT !.pool_nft = parsed.pool_nft, !.lp_tokens = parsed.lp_tokens,
              !.dex_nft = parsed.dex_nft,
              !.assets = IF stripped
                         THEN SelectSeq(v.assets, LAMBDA e :
                                /\ parsed.pool_nft = NoVal \/ ~Has(parsed.pool_nft, e.unit)
                                /\ parsed.lp_tokens = NoVal \/ ~Has(parsed.lp_tokens, e.unit)
                                /\ parsed.dex_nft = NoVal \/ ~Has(parsed.dex_nft, e.unit))
                         ELSE v.assets]

\* cls.model_validate(record with pool_nft, lp_tokens, dex_nft supplied)
ParseSupplied ==
    /\ res.err = "none"
    /\ NoneSupplied(raw)
    /\ res2 = Pending
    /\ \E stripped \in BOOLEAN :
          LET out == TranslateAddress(cls, Supplied(raw, res.v, stripped))
          IN  res2' = [err |-> out.err, v |-> out.v, stripped |-> stripped]
    /\ UNCHANGED << cls, raw, res, nftRes, pool, ask, quote, tradeVars >>

Next == Parse \/ ExtractPoolNftCall \/ ParseSupplied

Spec == Init /\ [][Next]_vars

----------------------------------------------------------------------------
(* Pricing: a Splash constant-product pool is asked for one quote *)

PriceClasses == {"SplashCPPState", "SplashCPPBidirState", "SplashCPPRoyaltyState"}

InitPrice ==
    /\ cls \in PriceClasses
    /\ raw = Values(EmptyBag, Garbage, NoVal, NoVal, NoVal)
    /\ res = Pending
    /\ nftRes = Pending
    /\ res2 = Pending
    /\ pool \in PricePools(cls)
    /\ ask \in PriceAsks
    /\ quote = Pending
    /\ IdleTrade

\* pool.get_amount_out(asset)
GetAmountOut ==
    /\ quote = Pending
    /\ quote' = SplashCPPGetAmountOut(pool, ask)
    /\ UNCHANGED << cls, raw, res, nftRes, res2, pool, ask, tradeVars >>

NextPrice == GetAmountOut

SpecPrice == InitPrice /\ [][NextPrice]_vars

----------------------------------------------------------------------------
(* Properties of pool recognition *)

\* C1: CSwapCPPState.extract_pool_nft on a record without a supplied
\* pool_nft succeeds iff the assets hold a non-lovelace unit named hex 63
\* with quantity exactly 1; on success that unit is taken out of the assets
\* and stored as pool_nft; every other record fails with NotAPoolError.
C1_CSwapPoolNftExactlyOne ==
    (cls = "CSwapCPPState" /\ raw.pool_nft = NoVal /\ nftRes # Pending) =>
        LET held == {e \in {raw.assets[i] : i \in 1..Len(raw.assets)} :
                        e.unit.policy # "" /\ e.unit.name = "63" /\ e.qty = 1}
        IN  /\ (nftRes.err = "none") <=> (held # {})
            /\ nftRes.err # "none" => nftRes.err = "NotAPoolError"
            /\ nftRes.err = "none" =>
                  \E e \in held :
                      /\ nftRes.v.pool_nft = << e >>
                      /\ nftRes.v.assets = SelectSeq(raw.assets, LAMBDA x : x # e)

\* a quantity-2 token named 63 is passed over and the quantity-1 one is taken
C1_Witness ==
    /\ cls = "CSwapCPPState"
    /\ raw.pool_nft = NoVal
    /\ nftRes # Pending
    /\ nftRes.err = "none"
    /\ Has(raw.assets, CNft1)
    /\ Get(raw.assets, CNft1) = 2
    /\ nftRes.v.pool_nft = Single(CNft2, 1)

\* C2: SplashBaseState.extract_pool_nft accepts a record only when the
\* pool-NFT unit declared in the datum is held with quantity exactly 1 (in
\* the assets, or in the supplied pool_nft, which must be that unit);
\* otherwise the result is NotAPoolError.
C2_SplashPoolNftExactlyOne ==
    (/\ cls \in SplashClasses
     /\ nftRes # Pending
     /\ DecodeError(SplashPoolDatumClass(cls), raw.datum_cbor) = "none") =>
        LET nft == raw.datum_cbor.pool_nft
            holder == IF raw.pool_nft = NoVal THEN raw.assets ELSE raw.pool_nft
            heldOnce == \E i \in 1..Len(holder) : holder[i] = Entry(nft, 1)
        IN  /\ nftRes.err = "none" => heldOnce
            /\ ~heldOnce => nftRes.err = "NotAPoolError"

\* C3: parsing a record from scratch and parsing it again with the identity
\* tokens supplied (and taken out of the assets) yields the same normalized
\* reserves.
C3_SameReservesWhenSupplied ==
    (res2 # Pending /\ res2.err = "none" /\ res2.stripped) => res2.v.assets = res.v.assets

\* C4: recognition ends accepted or rejected with a classification error.
C4_OnlyClassificationErrors ==
    res # Pending => res.err \in {"none"} \cup ClassificationErrors

\* C5: an accepted CSwap pool has a decodable datum and its fee is the
\* datum's pool_fee plus the 15 basis points of platform fee.
C5_CSwapFeeFromDatum ==
    (cls = "CSwapCPPState" /\ res # Pending /\ res.err = "none") =>
        /\ DecodeError("CSwapPoolDatum", raw.datum_cbor) = "none"
        /\ res.v.fee = << raw.datum_cbor.pool_fee + 15 >>

\* C6: no reserve of an accepted pool is negative after normalization.
C6_NoNegativeReserve ==
    (res # Pending /\ res.err = "none" /\ NoneSupplied(raw)) =>
        \A i \in 1..Len(res.v.assets) : res.v.assets[i].qty >= 0

\* C7: a Splash pool parsed from scratch is inactive exactly when its
\* normalized balance, after all carry balances of its variant are
\* subtracted, is below 100,000,000.
C7_InactiveBelowFloor ==
    (cls \in SplashClasses /\ res # Pending /\ res.err = "none" /\ NoneSupplied(raw)) =>
        (res.v.inactive <=> res.v.assets[1].qty < 100000000)

----------------------------------------------------------------------------
(* Properties of Splash pricing *)

SoldReserve == Get(pool.assets, ask.unit)
OtherReserve == IF ask.unit = pool.assets[1].unit THEN pool.assets[2].qty ELSE pool.assets[1].qty

\* C8: every quote returned by SplashCPPState.get_amount_out satisfies both
\* settlement inequalities, and a ValueError means the recomputed amount
\* fails them too.
C8_QuoteSatisfiesInvariant ==
    (quote # Pending /\ quote.err \in {"none", "ValueError"}) =>
        LET fee == 100000 - pool.fee[1]
            dx == ask.qty
            dxf == dx * fee
            rx == SoldReserve
            ry == OtherReserve
            holds(amount) ==
                LET dy == -amount
                    dyf == dy * fee
                IN  /\ -dy * (rx * 100000 + dxf) <= ry * dxf
                    /\ -dx * (ry * 100000 + dyf) <= rx * dyf
        IN  IF quote.err = "none" THEN holds(quote.qty)
            ELSE ~holds(TrueDivInt(ry * dxf, rx * 100000 + dxf))

\* a positive quote on a pool with positive reserves
C8_Witness ==
    /\ quote # Pending
    /\ quote.err = "none"
    /\ quote.qty > 0
    /\ pool.assets[1].qty > 0
    /\ pool.assets[2].qty > 0
    /\ pool.fee = << 350 >>

\* C9: the rx and ry of the formula and of the re-check are the normalized
\* reserves plus the datum's treasury (and royalty) balance of that side.
C9_ReservesIncludeCarry ==
    (/\ cls \in {"SplashCPPState", "SplashCPPRoyaltyState"}
     /\ quote # Pending
     /\ quote.err = "none"
     /\ pool.assets[1].qty > 0
     /\ pool.assets[2].qty > 0) =>
        LET d == pool.pool_datum
            carryX == d.treasury_x + (IF cls = "SplashCPPRoyaltyState" THEN d.royalty_x ELSE 0)
            carryY == d.treasury_y + (IF cls = "SplashCPPRoyaltyState" THEN d.royalty_y ELSE 0)
            sellX == ask.unit = pool.assets[1].unit
        IN  /\ quote.rx = SoldReserve + (IF sellX THEN carryX ELSE carryY)
            /\ quote.ry = OtherReserve + (IF sellX THEN carryY ELSE carryX)

\* C10: a bidirectional pool with a fee pair quotes both directions, with
\* the first fee when unit_a is sold and the second when unit_b is sold.
C10_BidirSelectsFeeBySide ==
    (/\ cls = "SplashCPPBidirState"
     /\ quote # Pending
     /\ ask.unit \in Units(pool.assets)
     /\ pool.assets[1].qty > 0
     /\ pool.assets[2].qty > 0
     /\ \A i \in 1..2 : pool.fee[i] \in 0..100000) =>
        /\ quote.err = "none"
        /\ quote.fee = 100000 - (IF ask.unit = pool.assets[1].unit THEN pool.fee[1] ELSE pool.fee[2])

----------------------------------------------------------------------------
(* Trade effects of the Splash pools: swap_utxo.  Objects live in a heap   *)
(* indexed by the name that holds them, so that a write through one name   *)
(* is seen through every other name of the same object.                    *)

\* the fields of a pool datum, in the order of the dataclass
DatumFields(schema) ==
    CASE schema = "SplashSSPPoolDatum" ->
            << "asset_x", "asset_y", "protocol_fee_x", "protocol_fee_y" >>
      [] schema = "SplashCPPPoolDatum" ->
            << "asset_x", "asset_y", "treasury_fee", "treasury_x", "treasury_y" >>
      [] schema = "SplashCPPBidirPoolDatum" ->
            << "asset_x", "asset_y", "treasury_fee", "treasury_x", "treasury_y" >>
      [] schema = "SplashCPPRoyaltyPoolDatum" ->
            << "asset_x", "asset_y", "treasury_fee", "royalty_fee",
               "treasury_x", "treasury_y", "royalty_x", "royalty_y" >>
      [] schema = "GeniusYieldOrder" ->
            << "offered_asset", "offered_amount", "asked_asset", "price",
               "start_time", "end_time", "partial_fills", "maker_lovelace_fee",
               "contained_fee", "contained_payment" >>

\* datum.to_cbor(): the constructor tag followed by the field values
ToCbor(d) ==
    LET F == DatumFields(d.schema)
    IN  << d.schema >> \o [i \in 1..Len(F) |-> d[F[i]]]

\* class.from_cbor(bytes): a new datum holding the decoded field values
FromCbor(class, c) ==
    LET F == DatumFields(class)
    IN  [f \in {"schema"} \cup {F[i] : i \in 1..Len(F)} |->
            IF f = "schema" THEN c[1]
            ELSE c[1 + (CHOOSE i \in 1..Len(F) : F[i] = f)]]

\* decoding that hands back the encoded object itself
AliasObject(src, fresh) == src

\* the name under which the object decoded from an object's bytes lives: a
\* new object, never the one that was encoded
FreshObject(src, fresh) == fresh

\* the value F gives for v, with v computed once
With(v, F(_)) == F(v)

\* a write through the name ref of the value F gives in the heap as it is
Store(h, ref, F(_)) == [h EXCEPT ![ref] = F(h)]

\* Assets.__add__: a new bag, quantities added unit by unit
AssetsAdd(a, b) ==
    [i \in 1..Len(a) |->
        Entry(a[i].unit, a[i].qty + (IF Has(b, a[i].unit) THEN Get(b, a[i].unit) ELSE 0))]
    \o SelectSeq(b, LAMBDA e : ~Has(a, e.unit))

\* the rounding of the share with the quotient rounded up instead of down
SplashFeeShareCeil(dx, fee) == -FloorDiv(-(dx * fee), 100000)

\* int(in_assets.quantity() * fee // 100000)
SplashFeeShare(dx, fee) == FloorDiv(dx * fee, 100000)

\* AbstractCommonStableSwapPoolState.get_amount_out: some quantity of the
\* other unit of the pool
StableGetAmountOut(p, asset, dy) ==
    IF ~Has(p.assets, asset.unit) THEN [err |-> "AssertionError"]
    ELSE [err |-> "none",
          unit |-> IF asset.unit = UnitAt(p.assets, 0)
                   THEN UnitAt(p.assets, 1) ELSE UnitAt(p.assets, 0),
          qty |-> dy]

SwapHeap(p) ==
    [r \in SwapRefs |-> IF r = "self.assets" THEN p.assets
                        ELSE IF r = "self.pool_datum" THEN p.pool_datum
                        ELSE IF r = "self.fee" THEN p.fee
                        ELSE NoVal]

MissingForSwap(p) == p.pool_nft = NoVal \/ p.lp_tokens = NoVal

\* SplashSSPState.swap_utxo
SplashSSPSwapUtxo(p, in_assets, dy) ==
    LET h0 == SwapHeap(p)
        q == StableGetAmountOut(p, in_assets, dy)
        h1 == Store(h0, "assets",
                    LAMBDA h : AssetsAdd(AssetsAdd(h["self.assets"], p.pool_nft), p.lp_tokens))
        h2 == Store(h1, "assets",
                    LAMBDA h : AddQty(h["assets"], in_assets.unit, in_assets.qty))
        h3 == Store(h2, "assets", LAMBDA h : AddQty(h["assets"], q.unit, -q.qty))
    IN  IF MissingForSwap(p) THEN [err |-> "ValueError", heap |-> h0]
        ELSE IF q.err # "none" THEN [err |-> q.err, heap |-> h0]
        ELSE [err |-> "none", heap |-> h3,
              input |-> [assets |-> h1["assets"], datum |-> "self.pool_datum"], out |-> q,
              txo |-> [assets |-> h3["assets"], datum |-> "self.pool_datum"],
              datum |-> "self.pool_datum"]

\* SplashCPPState.swap_utxo, and SplashCPPRoyaltyState.swap_utxo when royalty
SplashCPPSwapUtxo(p, in_assets, royalty) ==
    LET h0 == SwapHeap(p)
        q == SplashCPPGetAmountOut(p, in_assets)
        class == p.pool_datum.schema
        pd == FreshObject("self.pool_datum", "pool_datum")
        nd == FreshObject("self.pool_datum", "new_pool_datum")
        sellX == in_assets.unit = p.pool_datum.asset_x
        sellY == in_assets.unit = p.pool_datum.asset_y
        h1 == Store(h0, pd, LAMBDA h : FromCbor(class, ToCbor(h["self.pool_datum"])))
        h2 == Store(h1, "assets",
                    LAMBDA h : AssetsAdd(AssetsAdd(h["self.assets"], p.pool_nft), p.lp_tokens))
        h3 == Store(h2, "assets",
                    LAMBDA h : AddQty(h["assets"], UnitAt(h["self.assets"], 0),
                                      h[pd].treasury_x
                                      + (IF royalty THEN h["self.pool_datum"].royalty_x ELSE 0)))
        h4 == Store(h3, "assets",
                    LAMBDA h : AddQty(h["assets"], UnitAt(h["self.assets"], 1),
                                      h[pd].treasury_y
                                      + (IF royalty THEN h["self.pool_datum"].royalty_y ELSE 0)))
        h5 == Store(h4, "new_assets", LAMBDA h : h["assets"])
        h6 == Store(h5, "new_assets",
                    LAMBDA h : AddQty(h["new_assets"], in_assets.unit, in_assets.qty))
        h7 == Store(h6, "new_assets", LAMBDA h : AddQty(h["new_assets"], q.unit, -q.qty))
        h8 == Store(h7, nd, LAMBDA h : FromCbor(class, ToCbor(h["self.pool_datum"])))
        h9 == Store(h8, nd,
                    LAMBDA h :
                        IF sellX
                        THEN [h[nd] EXCEPT !.treasury_x =
                                  @ + SplashFeeShare(in_assets.qty, h[nd].treasury_fee)]
                        ELSE [h[nd] EXCEPT !.treasury_y =
                                  @ + SplashFeeShare(in_assets.qty, h[nd].treasury_fee)])
        h10 == Store(h9, nd,
                     LAMBDA h :
                         IF ~royalty THEN h[nd]
                         ELSE IF sellX
                         THEN [h[nd] EXCEPT !.royalty_x =
                                   @ + SplashFeeShare(in_assets.qty, h[nd].royalty_fee)]
                         ELSE [h[nd] EXCEPT !.royalty_y =
                                   @ + SplashFeeShare(in_assets.qty, h[nd].royalty_fee)])
    IN  IF MissingForSwap(p) THEN [err |-> "ValueError", heap |-> h0]
        ELSE IF q.err # "none" THEN [err |-> q.err, heap |-> h0]
        ELSE IF ~sellX /\ ~sellY THEN [err |-> "ValueError", heap |-> h8]
        ELSE [err |-> "none", heap |-> h10,
              input |-> [assets |-> h4["assets"], datum |-> "self.pool_datum"], out |-> q,
              txo |-> [assets |-> h10["new_assets"], datum |-> nd],
              datum |-> "self.pool_datum"]

\* cls.swap_utxo by method resolution: SplashCPPBidirState inherits SplashCPPState's
SplashSwapUtxo(p, in_assets, dy) ==
    CASE p.cls = "SplashSSPState" -> SplashSSPSwapUtxo(p, in_assets, dy)
      [] p.cls = "SplashCPPRoyaltyState" -> SplashCPPSwapUtxo(p, in_assets, TRUE)
      [] OTHER -> SplashCPPSwapUtxo(p, in_assets, FALSE)

\* an input large enough for a share of the fees to be a whole unit
SwapTreasuryFees == {100, 50000}
SwapRoyaltyFees == {20, 30000}

\* pool states as post_init leaves them, with their identity and LP tokens
SwapPoolDatums(c) ==
    CASE c = "SplashSSPState" ->
            {[schema |-> "SplashSSPPoolDatum", asset_x |-> Lovelace, asset_y |-> TokA,
              protocol_fee_x |-> x, protocol_fee_y |-> y] : x \in 0..1, y \in 0..1}
      [] c = "SplashCPPRoyaltyState" ->
            {[schema |-> "SplashCPPRoyaltyPoolDatum", asset_x |-> Lovelace, asset_y |-> TokA,
              treasury_fee |-> tf, royalty_fee |-> rf, treasury_x |-> x, treasury_y |-> y,
              royalty_x |-> r, royalty_y |-> 0] :
                tf \in SwapTreasuryFees, rf \in SwapRoyaltyFees,
                x \in 0..1, y \in 0..1, r \in 0..1}
      [] OTHER ->
            {[schema |-> SplashPoolDatumClass(c), asset_x |-> Lovelace, asset_y |-> TokA,
              treasury_fee |-> tf, treasury_x |-> x, treasury_y |-> y] :
                tf \in SwapTreasuryFees, x \in 0..1, y \in 0..1}

SwapPools(c) ==
    {[cls |-> c,
      assets |-> << Entry(Lovelace, ra), Entry(TokA, rb) >>,
      pool_nft |-> Single(SNft, 1),
      lp_tokens |-> lp,
      fee |-> IF c = "SplashCPPBidirState" THEN << 350, 1050 >> ELSE << 350 >>,
      pool_datum |-> d] :
        ra \in 1..MaxReserve, rb \in 1..MaxReserve,
        lp \in {NoVal, Single(SLp, LpQty)}, d \in SwapPoolDatums(c)}

----------------------------------------------------------------------------
(* GeniusYield orders.  An order state is [dex_nft, assets, fee,           *)
(* order_datum]; assets holds the asked unit first and the offered unit    *)
(* second.                                                                 *)

GYPolicyV1 == "22f6999d4effc0ade05f6e1a70b702c65d6b3cdf0e301e4a8267f585"
GYPolicyV11 == "642c1f7bf79ca48c0f97239fcb2f3b42b92f2548184ab394e1e1e503"

GYConfiguredFee == 30

CeilDiv(a, b) == -FloorDiv(-a, b)

GYIsV1(o) == o.dex_nft.policy = GYPolicyV1
GYIsV11(o) == o.dex_nft.policy = GYPolicyV11

\* AbstractOrderState.in_unit, out_unit
OrderInUnit(o) == UnitAt(o.assets, 0)
OrderOutUnit(o) == UnitAt(o.assets, 1)

\* GeniusYieldOrderState.available
GYAvailable(o) == o.order_datum.offered_amount

\* _get_fee, with f the value self.fee has when it is read
GYGetFee(o, f, q) ==
    IF GYIsV1(o) THEN CeilDiv(q * f, 10000) ELSE FloorDiv(q * f, 10000)

\* _get_closest_input, with f the value self.fee has when it is read
GYGetClosestInput(o, f, q) ==
    LET num == o.order_datum.price.numerator
        denom == o.order_datum.price.denominator
        a == IF GYIsV1(o) THEN FloorDiv(q * 10000, f + 10000)
             ELSE CeilDiv(q * 10000, f + 10000)
    IN  CeilDiv(FloorDiv(a * denom, num) * num, denom)

\* AbstractOrderState.get_amount_out(asset, precise=False): the input less the
\* volume fee, at the order's price, at most what the order still offers;
\* the amount is the rational n / d
OrderBaseGetAmountOut(o, asset) ==
    IF asset.unit # OrderInUnit(o) THEN [err |-> "AssertionError"]
    ELSE LET num == o.order_datum.price.numerator
             denom == o.order_datum.price.denominator
             inq == asset.qty - CeilDiv(asset.qty * o.fee, 10000)
         IN  IF inq * denom >= GYAvailable(o) * num
             THEN [err |-> "none", n |-> GYAvailable(o), d |-> 1]
             ELSE [err |-> "none", n |-> inq * denom, d |-> num]

\* AbstractOrderState.get_amount_in(asset, precise=True): the price of what can
\* be had of the asked output plus the volume fee, rounded up
OrderBaseGetAmountIn(o, asset) ==
    IF asset.unit # OrderOutUnit(o) THEN [err |-> "AssertionError"]
    ELSE LET num == o.order_datum.price.numerator
             denom == o.order_datum.price.denominator
             m == IF asset.qty < GYAvailable(o) THEN asset.qty ELSE GYAvailable(o)
         IN  [err |-> "none", qty |-> CeilDiv(m * num * (10000 + o.fee), denom * 10000)]

\* GeniusYieldOrderState.get_amount_out; state is the order state the call
\* leaves behind
GYGetAmountOut(o, asset) ==
    LET a0 == GYGetClosestInput(o, o.fee, asset.qty)
        amount_in == IF GYIsV11(o) THEN a0 - 1 ELSE a0
        fee == o.fee
        o1 == [o EXCEPT !.fee = 0]
        b == OrderBaseGetAmountOut(o1, Entry(OrderInUnit(o), amount_in))
    IN  IF b.err # "none" THEN [err |-> b.err, state |-> o1]
        ELSE [err |-> "none", unit |-> OrderOutUnit(o),
              qty |-> IF GYIsV11(o) THEN CeilDiv(b.n, b.d) ELSE FloorDiv(b.n, b.d),
              state |-> [o1 EXCEPT !.fee = fee]]

\* GeniusYieldOrderState.get_amount_in
GYGetAmountIn(o, asset) ==
    LET fee == o.fee
        o1 == [o EXCEPT !.fee = 0]
        b == OrderBaseGetAmountIn(o1, asset)
        o2 == [o1 EXCEPT !.fee = fee]
    IN  IF b.err # "none" THEN [err |-> b.err, state |-> o1]
        ELSE LET f == GYGetFee(o2, o2.fee, b.qty)
                 amount_in == GYGetClosestInput(o2, o2.fee, b.qty + f)
             IN  [err |-> "none", unit |-> OrderInUnit(o), qty |-> amount_in + f,
                  state |-> o2]

GYPrices == {<< 1, 1 >>, << 3, 1 >>, << 2, 3 >>}
GYOffered == {0, 2, 400}

\* start_time / end_time of the datum: constructor 0 carries a POSIX time in
\* milliseconds, constructor 1 is no limit
NoTime == [constr |-> 1, timestamp |-> 0]
AtTime(ms) == [constr |-> 0, timestamp |-> ms]

\* order states of both contract versions: TokA offered for lovelace; a
\* time of 0 stands for no time limit
GYOrders ==
    {[cls |-> "GeniusYieldOrderState",
      dex_nft |-> Unit(pol, "01"),
      assets |-> << Entry(Lovelace, 2), Entry(TokA, off) >>,
      fee |-> GYConfiguredFee,
      order_datum |->
          [schema |-> "GeniusYieldOrder",
           offered_asset |-> TokA, asked_asset |-> Lovelace,
           offered_amount |-> off,
           price |-> [numerator |-> pr[1], denominator |-> pr[2]],
           partial_fills |-> 0, maker_lovelace_fee |-> 1,
           contained_fee |-> [lovelaces |-> 1, offered_tokens |-> 0, asked_tokens |-> 0],
           contained_payment |-> 0,
           start_time |-> NoTime, end_time |-> NoTime]] :
        pol \in {GYPolicyV1, GYPolicyV11}, off \in GYOffered, pr \in GYPrices}

\* inputs of a few units, and inputs large enough for the fee of 30 / 10000 to
\* be a few units
GYAsks == {Entry(Lovelace, q) : q \in 1..MaxDx} \cup {Entry(Lovelace, 1000 + q) : q \in 0..MaxDx}

\* GeniusYieldOrderState._batcher
GYBatcher == 1000000

GYIsPartialOrAll(o, out_assets) == out_assets.qty <= GYAvailable(o)

\* out_assets.quantity() < self.available.quantity()
GYIsPartial(o, out_assets) == out_assets.qty < GYAvailable(o)

\* settings.min_deposit of the settings datum on the chain, in lovelace
GYMinDeposit == 2

\* GeniusYieldOrderState.swap_utxo: the redeemer of the script input, the
\* minting scripts and the mint it adds to the transaction, the outputs it
\* adds, and the output and datum it returns
GYSwapUtxo(o, in_assets, out_assets) ==
    LET h0 == [r \in SwapRefs |-> IF r = "self.assets" THEN o.assets
                                  ELSE IF r = "self.order_datum" THEN o.order_datum
                                  ELSE IF r = "self.fee" THEN o.fee
                                  ELSE NoVal]
        payment == GYGetClosestInput(o, o.fee, in_assets.qty)
        fee == GYGetFee(o, o.fee, payment)
        partial == GYIsPartial(o, out_assets)
        od == FreshObject("self.order_datum", "order_datum")
        h1 == Store(h0, "assets", LAMBDA h : AssetsAdd(h["self.assets"], Single(o.dex_nft, 1)))
        h2 == Store(h1, od,
                    LAMBDA h : FromCbor("GeniusYieldOrder", ToCbor(h["self.order_datum"])))
        h3 == Store(h2, od,
                    LAMBDA h : [h[od] EXCEPT !.offered_amount = @ - out_assets.qty,
                                             !.partial_fills = @ + 1])
        h4 == Store(h3, od,
                    LAMBDA h : [h[od] EXCEPT !.contained_fee.lovelaces =
                                                 @ + h["self.order_datum"].maker_lovelace_fee])
        h5 == Store(h4, od,
                    LAMBDA h : [h[od] EXCEPT !.contained_fee.asked_tokens = @ + fee,
                                             !.contained_payment = @ + payment])
        h6 == Store(h5, "assets", LAMBDA h : AddQty(h["assets"], in_assets.unit, payment + fee))
        h7 == Store(h6, "assets",
                    LAMBDA h : AddQty(h["assets"], out_assets.unit, -out_assets.qty))
        h8 == Store(h7, "assets", LAMBDA h : AssetsAdd(h["assets"], Single(Lovelace, GYBatcher)))
        fee_base ==
            AssetsAdd(AssetsAdd(
                Single(Lovelace, o.order_datum.contained_fee.lovelaces),
                Single(OrderOutUnit(o), o.order_datum.contained_fee.offered_tokens)),
                Single(OrderInUnit(o), o.order_datum.contained_fee.asked_tokens))
        fee_assets ==
            AssetsAdd(AddQty(fee_base, Lovelace, 1000000), Single(in_assets.unit, fee))
        h9 == Store(h8, "fee_datum",
                    LAMBDA h : [schema |-> "GeniusYieldFeeDatum", fees |-> fee_base])
        payment_assets ==
            AssetsAdd(Single(Lovelace, GYMinDeposit),
                      Single(OrderInUnit(o), h5[od].contained_payment))
    IN  IF ~Has(o.assets, in_assets.unit) \/ ~Has(o.assets, out_assets.unit)
        THEN [err |-> "KeyError", heap |-> h5]
        ELSE IF partial
        THEN [err |-> "none", heap |-> h8, partial |-> TRUE,
              redeemer |-> [schema |-> "GeniusSubmitRedeemer",
                            spend_amount |-> out_assets.qty],
              minting |-> << >>, mint |-> << >>, paid |-> << >>,
              txo |-> [address |-> "order", assets |-> h8["assets"], datum |-> od],
              datum |-> od]
        ELSE [err |-> "none", heap |-> h9, partial |-> FALSE,
              redeemer |-> [schema |-> "GeniusCompleteRedeemer"],
              minting |-> << "CancelRedeemer" >>,
              mint |-> Single(o.dex_nft, -1),
              paid |-> << [address |-> "owner", assets |-> payment_assets] >>,
              txo |-> [address |-> "fee", assets |-> fee_assets, datum |-> "fee_datum"],
              datum |-> "fee_datum"]

\* what a taker asks of the order: a part of what it offers, or all of it
GYTakes(o) == {Entry(OrderOutUnit(o), q) : q \in {1, GYAvailable(o)}}

SwapClasses == SplashClasses \cup {"GeniusYieldOrderState"}

InitSwap ==
    /\ cls \in SwapClasses
    /\ raw = Values(EmptyBag, Garbage, NoVal, NoVal, NoVal)
    /\ res = Pending
    /\ nftRes = Pending
    /\ res2 = Pending
    /\ IF cls = "GeniusYieldOrderState"
       THEN pool = NoPool /\ order \in GYOrders /\ ask \in GYAsks
       ELSE pool \in SwapPools(cls) /\ order = NoOrder /\ ask \in PriceAsks
    /\ quote = Pending
    /\ IdleSwap
    /\ gyOut = Pending
    /\ gyIn = Pending
    /\ IdleEngine

\* pool.swap_utxo(address_source, in_assets, out_assets, tx_builder)
SwapUtxo ==
    /\ cls \in SplashClasses
    /\ swapOut = Pending
    /\ \E dy \in (IF cls = "SplashSSPState" THEN 0..MaxDx ELSE {0}) :
          LET r == SplashSwapUtxo(pool, ask, dy)
          IN  /\ heap' = r.heap
              /\ swapOut' = [f \in DOMAIN r \ {"heap"} |-> r[f]]
    /\ UNCHANGED << cls, raw, res, nftRes, res2, pool, ask, quote, quoteVars, engineVars >>

\* order.swap_utxo(address_source, in_assets, out_assets, tx_builder)
GYSwapUtxoCall ==
    /\ cls = "GeniusYieldOrderState"
    /\ swapOut = Pending
    /\ \E out_assets \in GYTakes(order) :
          LET r == GYSwapUtxo(order, ask, out_assets)
          IN  /\ heap' = r.heap
              /\ swapOut' = [f \in DOMAIN r \ {"heap"} |-> r[f]]
    /\ UNCHANGED << cls, raw, res, nftRes, res2, pool, ask, quote, quoteVars, engineVars >>

NextSwap == SwapUtxo \/ GYSwapUtxoCall

SpecSwap == InitSwap /\ [][NextSwap]_vars

----------------------------------------------------------------------------
(* Properties of the trade effects *)

\* the value of the pool's ledger output: post_init took the identity token,
\* the LP tokens and the datum's carry balances out of it
OnChainValue(p) ==
    LET d == p.pool_datum
        cx == CASE p.cls = "SplashSSPState" -> d.protocol_fee_x
                [] p.cls = "SplashCPPRoyaltyState" -> d.treasury_x + d.royalty_x
                [] OTHER -> d.treasury_x
        cy == CASE p.cls = "SplashSSPState" -> d.protocol_fee_y
                [] p.cls = "SplashCPPRoyaltyState" -> d.treasury_y + d.royalty_y
                [] OTHER -> d.treasury_y
        all == AssetsAdd(AssetsAdd(p.assets, p.pool_nft), p.lp_tokens)
    IN  AddQty(AddQty(all, UnitAt(p.assets, 0), cx), UnitAt(p.assets, 1), cy)

\* C14: the pool output of a Splash swap_utxo holds, unit by unit, the value
\* of the pool's ledger output (normalized reserves, identity token, LP
\* tokens and the carry balances put back) plus the quantity traded in and
\* minus the quantity quoted out; identity and LP token are untouched
C14_PoolOutputIsInputPlusTrade ==
    (cls \in SplashClasses /\ swapOut.err = "none") =>
        LET before == OnChainValue(pool)
            after == swapOut.txo.assets
        IN  /\ Units(after) = Units(before)
            /\ \A u \in Units(before) :
                  Get(after, u) = Get(before, u)
                                  + (IF u = ask.unit THEN ask.qty ELSE 0)
                                  - (IF u = swapOut.out.unit THEN swapOut.out.qty ELSE 0)
            /\ Get(after, SNft) = 1
            /\ Get(after, SLp) = LpQty

\* C15: in the datum of the pool output of SplashCPPState.swap_utxo the
\* treasury balance of the sold side grows by floor(dx * treasury_fee / 100000)
\* and the other side's is unchanged; SplashCPPRoyaltyState.swap_utxo also
\* grows the sold side's royalty balance by floor(dx * royalty_fee / 100000);
\* an input unit that is neither asset_x nor asset_y gives an error
C15_TreasuryAccrual ==
    (swapOut.err # "pending" /\ cls \in {"SplashCPPState", "SplashCPPRoyaltyState"}) =>
        LET old == pool.pool_datum
            sellX == ask.unit = old.asset_x
            sellY == ask.unit = old.asset_y
        IN  /\ (~sellX /\ ~sellY) => swapOut.err # "none"
            /\ swapOut.err = "none" =>
                  LET new == heap[swapOut.txo.datum]
                      t == (ask.qty * old.treasury_fee) \div 100000
                  IN  /\ new.treasury_x = old.treasury_x + (IF sellX THEN t ELSE 0)
                      /\ new.treasury_y = old.treasury_y + (IF sellY THEN t ELSE 0)
                      /\ cls = "SplashCPPRoyaltyState" =>
                            LET r == (ask.qty * old.royalty_fee) \div 100000
                            IN  /\ new.royalty_x = old.royalty_x + (IF sellX THEN r ELSE 0)
                                /\ new.royalty_y = old.royalty_y + (IF sellY THEN r ELSE 0)

\* a royalty pool sold enough lovelace for whole units of both shares
C15_Witness ==
    /\ cls = "SplashCPPRoyaltyState"
    /\ swapOut.err = "none"
    /\ ask.unit = pool.pool_datum.asset_x
    /\ heap[swapOut.txo.datum].treasury_x > pool.pool_datum.treasury_x
    /\ heap[swapOut.txo.datum].royalty_x > pool.pool_datum.royalty_x
    /\ heap[swapOut.txo.datum].treasury_y = pool.pool_datum.treasury_y

\* C16: the second component returned by SplashCPPState.swap_utxo and
\* SplashCPPRoyaltyState.swap_utxo is the datum embedded in the returned pool
\* output, with the accrued balances
C16_ReturnsNewDatum ==
    (swapOut.err = "none" /\ cls \in {"SplashCPPState", "SplashCPPRoyaltyState"}) =>
        heap[swapOut.datum] = heap[swapOut.txo.datum]

----------------------------------------------------------------------------
(* Quotes of a GeniusYield order, one after the other *)

InitQuote ==
    /\ cls = "GeniusYieldOrderState"
    /\ raw = Values(EmptyBag, Garbage, NoVal, NoVal, NoVal)
    /\ res = Pending
    /\ nftRes = Pending
    /\ res2 = Pending
    /\ pool = NoPool
    /\ ask \in GYAsks
    /\ quote = Pending
    /\ IdleSwap
    /\ order \in GYOrders
    /\ gyOut = Pending
    /\ gyIn = Pending
    /\ IdleEngine

\* order.get_amount_out(asset)
QuoteOut ==
    /\ gyOut = Pending
    /\ LET r == GYGetAmountOut(order, ask)
       IN  /\ gyOut' = [f \in DOMAIN r \ {"state"} |-> r[f]]
           /\ order' = r.state
    /\ UNCHANGED << cls, raw, res, nftRes, res2, pool, ask, quote, swapVars, gyIn, engineVars >>

\* order.get_amount_in(the quoted output)
QuoteIn ==
    /\ gyOut.err = "none"
    /\ gyIn = Pending
    /\ LET r == GYGetAmountIn(order, Entry(gyOut.unit, gyOut.qty))
       IN  /\ gyIn' = [f \in DOMAIN r \ {"state"} |-> r[f]]
           /\ order' = r.state
    /\ UNCHANGED << cls, raw, res, nftRes, res2, pool, ask, quote, swapVars, gyOut, engineVars >>

NextQuote == QuoteOut \/ QuoteIn

SpecQuote == InitQuote /\ [][NextQuote]_vars

\* C11: get_amount_in of the output quoted by get_amount_out for an input
\* dx > 0 is an input of at least dx, for both GeniusYield contract versions;
\* stated for orders that still offer something and quotes that are not empty
C11_RoundTripAtLeastInput ==
    (gyIn.err = "none" /\ GYAvailable(order) > 0 /\ gyOut.qty > 0) => gyIn.qty >= ask.qty

----------------------------------------------------------------------------
(* Properties of the quotes of a constant-product pool *)

\* C12: for a pool with positive reserves (rx, ry) and a fee f > 0, a trade
\* (dx in, dy out) quoted by SplashCPPState.get_amount_out does not decrease
\* the product of the reserves: (rx + dx) * (ry - dy) >= rx * ry
C12_ProductNeverDecreases ==
    (/\ quote.err = "none"
     /\ SoldReserve > 0
     /\ OtherReserve > 0
     /\ pool.fee[1] > 0) =>
        (SoldReserve + ask.qty) * (OtherReserve - quote.qty) >= SoldReserve * OtherReserve

\* a trade that takes something out of a pool with a fee
C12_Witness ==
    /\ quote.err = "none"
    /\ SoldReserve > 0
    /\ OtherReserve > 0
    /\ pool.fee[1] > 0
    /\ quote.qty > 0
    /\ (SoldReserve + ask.qty) * (OtherReserve - quote.qty - 1) < SoldReserve * OtherReserve

----------------------------------------------------------------------------
(* Scale multipliers of the stableswap pools *)

MaxStates == 2
MaxUsed == 2

SSPScalePairs == {<< 1, 1 >>, << 1, 10 >>}

\* the decoded datum of a stableswap record: SplashSSPPoolDatum carries
\* multiplier_x and multiplier_y, WingRidersV2SSPoolDatum carries
\* pool_specifics.scale_a and pool_specifics.scale_b
SSPDatum(c, sc) ==
    IF c = "SplashSSPState"
    THEN [schema |-> "SplashSSPPoolDatum", multiplier_x |-> sc[1], multiplier_y |-> sc[2]]
    ELSE [schema |-> "WingRidersV2SSPoolDatum",
          pool_specifics |-> [scale_a |-> sc[1], scale_b |-> sc[2]]]

\* the multipliers post_init reads from the datum
DatumMultipliers(c, d) ==
    IF c = "SplashSSPState"
    THEN << d.multiplier_x, d.multiplier_y >>
    ELSE << d.pool_specifics.scale_a, d.pool_specifics.scale_b >>

\* self.asset_mulitipliers read on a pool state: the state has no attribute
\* of its own, so the read gives the attribute of its class
SelfMultipliers(st, classAttr) == classAttr[st.cls]

InitSSP ==
    /\ cls \in SSPClasses
    /\ raw = Values(EmptyBag, Garbage, NoVal, NoVal, NoVal)
    /\ res = Pending
    /\ nftRes = Pending
    /\ res2 = Pending
    /\ pool = NoPool
    /\ ask \in PriceAsks
    /\ quote = Pending
    /\ IdleTrade

\* SplashSSPState.post_init / WingRidersV2SSPState.post_init on a record, and
\* the pool state the parse returns
PostInitSSP ==
    /\ Len(states) < MaxStates
    /\ \E c \in SSPClasses, sc \in SSPScalePairs :
          LET d == SSPDatum(c, sc)
          IN  /\ asset_mulitipliers' =
                     [asset_mulitipliers EXCEPT ![c] = DatumMultipliers(c, d)]
              /\ states' = Append(states, [cls |-> c, pool_datum |-> d])
    /\ UNCHANGED << cls, raw, res, nftRes, res2, pool, ask, quote, swapVars, quoteVars, used, threadVars, bookVars, restVars >>

\* WingRidersV2SSPState.swap_datum on a pool state returned earlier
SwapDatum ==
    /\ Len(used) < MaxUsed
    /\ \E i \in 1..Len(states) :
          /\ states[i].cls = "WingRidersV2SSPState"
          /\ LET m == SelfMultipliers(states[i], asset_mulitipliers)
             IN  used' = Append(used, [state |-> i, op |-> "swap_datum",
                                       a_scale |-> m[1], b_scale |-> m[2]])
    /\ UNCHANGED << cls, raw, res, nftRes, res2, pool, ask, quote, swapVars, quoteVars,
                    asset_mulitipliers, states, threadVars, bookVars, restVars >>

\* the stableswap pricing of the base class on a pool state returned earlier:
\* it scales the reserves by self.asset_mulitipliers
ScaledPricing ==
    /\ Len(used) < MaxUsed
    /\ \E i \in 1..Len(states) :
          LET m == SelfMultipliers(states[i], asset_mulitipliers)
          IN  used' = Append(used, [state |-> i, op |-> "get_amount_out",
                                    a_scale |-> m[1], b_scale |-> m[2]])
    /\ UNCHANGED << cls, raw, res, nftRes, res2, pool, ask, quote, swapVars, quoteVars,
                    asset_mulitipliers, states, threadVars, bookVars, restVars >>

NextSSP == PostInitSSP \/ SwapDatum \/ ScaledPricing

SpecSSP == InitSSP /\ [][NextSSP]_vars

\* C17: every pool state prices and builds its order datum with the scale
\* multipliers of its own datum, whatever records were parsed after it
C17_MultipliersPerState ==
    \A k \in 1..Len(used) :
        LET st == states[used[k].state]
        IN  << used[k].a_scale, used[k].b_scale >> = DatumMultipliers(st.cls, st.pool_datum)

----------------------------------------------------------------------------
(* Threads quoting and trading on one GeniusYield order state.  A step is  *)
(* what a thread does between two accesses to self.fee.                    *)

MaxCalls == 3

GYThreadOrders ==
    {o \in GYOrders : o.order_datum.offered_amount = 400
                      /\ o.order_datum.price = [numerator |-> 3, denominator |-> 1]}

\* the calls a thread makes: the method and its asset argument
GYThreadCalls ==
    {[op |-> "get_amount_out", arg |-> Entry(Lovelace, 1003)],
     [op |-> "get_amount_out", arg |-> Entry(TokA, 5)],
     [op |-> "get_amount_in", arg |-> Entry(TokA, 3)],
     [op |-> "swap_utxo", arg |-> Entry(Lovelace, 1003)]}

IsCached(c) == \E e \in cache : e.op = c.op /\ e.arg = c.arg
Cached(c) == CHOOSE e \in cache : e.op = c.op /\ e.arg = c.arg

Goto(t, l) == pc' = [pc EXCEPT ![t] = l]
Return(t, r) ==
    /\ returned' = returned \cup {[op |-> frame[t].op, arg |-> frame[t].arg, result |-> r]}
    /\ pc' = [pc EXCEPT ![t] = "idle"]
    /\ frame' = [frame EXCEPT ![t] = NoFrame]

\* the variables the threads leave alone
ThreadFrame == << cls, raw, res, nftRes, res2, pool, ask, quote, swapVars, gyOut, gyIn,
                  scaleVars, bookVars, restVars >>

InitThreads ==
    /\ cls = "GeniusYieldOrderState"
    /\ raw = Values(EmptyBag, Garbage, NoVal, NoVal, NoVal)
    /\ res = Pending
    /\ nftRes = Pending
    /\ res2 = Pending
    /\ pool = NoPool
    /\ ask \in {Entry(Lovelace, 1003)}
    /\ quote = Pending
    /\ IdleSwap
    /\ order \in GYThreadOrders
    /\ gyOut = Pending
    /\ gyIn = Pending
    /\ IdleEngine

\* a thread calls a method; lru_cache answers from the cache when it holds
\* the argument, and runs the method otherwise
Call(t) ==
    /\ pc[t] = "idle"
    /\ calls < MaxCalls
    /\ calls' = calls + 1
    /\ \E c \in GYThreadCalls :
          IF c.op # "swap_utxo" /\ IsCached(c)
          THEN /\ returned' = returned \cup {[op |-> c.op, arg |-> c.arg,
                                              result |-> Cached(c).result]}
               /\ UNCHANGED << pc, frame >>
          ELSE /\ frame' = [frame EXCEPT ![t] = [op |-> c.op, arg |-> c.arg,
                                                 fee |-> 0, amount |-> 0]]
               /\ Goto(t, IF c.op = "get_amount_out" THEN "out_closest"
                          ELSE IF c.op = "get_amount_in" THEN "in_save"
                          ELSE "swap_closest")
               /\ UNCHANGED returned
    /\ UNCHANGED << order, cache, observed, ThreadFrame >>

\* get_amount_out: amount_in = self._get_closest_input(asset), less one for v1.1
OutClosest(t) ==
    /\ pc[t] = "out_closest"
    /\ LET a0 == GYGetClosestInput(order, order.fee, frame[t].arg.qty)
       IN  frame' = [frame EXCEPT ![t].amount = IF GYIsV11(order) THEN a0 - 1 ELSE a0]
    /\ observed' = observed \cup {order.fee}
    /\ Goto(t, "out_save")
    /\ UNCHANGED << order, cache, returned, calls, ThreadFrame >>

\* fee = self.fee
SaveFee(t) ==
    /\ pc[t] \in {"out_save", "in_save"}
    /\ frame' = [frame EXCEPT ![t].fee = order.fee]
    /\ Goto(t, IF pc[t] = "out_save" THEN "out_zero" ELSE "in_zero")
    /\ UNCHANGED << order, cache, observed, returned, calls, ThreadFrame >>

\* self.fee = 0
ZeroFee(t) ==
    /\ pc[t] \in {"out_zero", "in_zero"}
    /\ order' = [order EXCEPT !.fee = 0]
    /\ Goto(t, IF pc[t] = "out_zero" THEN "out_super" ELSE "in_super")
    /\ UNCHANGED << frame, cache, observed, returned, calls, ThreadFrame >>

\* amount_out, slippage = super().get_amount_out(asset=amount_in, precise=precise);
\* an exception ends the call where it is
OutSuper(t) ==
    /\ pc[t] = "out_super"
    /\ LET b == OrderBaseGetAmountOut(order, Entry(frame[t].arg.unit, frame[t].amount))
       IN  IF b.err # "none"
           THEN Return(t, [err |-> b.err])
           ELSE /\ frame' = [frame EXCEPT ![t].amount =
                                 IF GYIsV11(order) THEN CeilDiv(b.n, b.d)
                                 ELSE FloorDiv(b.n, b.d)]
                /\ Goto(t, "out_restore")
                /\ UNCHANGED returned
    /\ UNCHANGED << order, cache, observed, calls, ThreadFrame >>

\* self.fee = fee, the rounding of the output and the return, which lru_cache
\* stores
OutRestore(t) ==
    /\ pc[t] = "out_restore"
    /\ order' = [order EXCEPT !.fee = frame[t].fee]
    /\ LET r == [err |-> "none", unit |-> OrderOutUnit(order), qty |-> frame[t].amount]
       IN  /\ Return(t, r)
           /\ cache' = cache \cup {[op |-> frame[t].op, arg |-> frame[t].arg, result |-> r]}
    /\ UNCHANGED << observed, calls, ThreadFrame >>

\* amount_in, _ = super().get_amount_in(asset=asset, precise=precise)
InSuper(t) ==
    /\ pc[t] = "in_super"
    /\ LET b == OrderBaseGetAmountIn(order, frame[t].arg)
       IN  IF b.err # "none"
           THEN Return(t, [err |-> b.err])
           ELSE /\ frame' = [frame EXCEPT ![t].amount = b.qty]
                /\ Goto(t, "in_restore")
                /\ UNCHANGED returned
    /\ UNCHANGED << order, cache, observed, calls, ThreadFrame >>

\* self.fee = fee
InRestore(t) ==
    /\ pc[t] = "in_restore"
    /\ order' = [order EXCEPT !.fee = frame[t].fee]
    /\ Goto(t, "in_fee")
    /\ UNCHANGED << frame, cache, observed, returned, calls, ThreadFrame >>

\* fee = self._get_fee(amount_in)
InFee(t) ==
    /\ pc[t] = "in_fee"
    /\ frame' = [frame EXCEPT ![t].fee = GYGetFee(order, order.fee, frame[t].amount)]
    /\ observed' = observed \cup {order.fee}
    /\ Goto(t, "in_closest")
    /\ UNCHANGED << order, cache, returned, calls, ThreadFrame >>

\* amount_in = self._get_closest_input(amount_in + fee); return amount_in + fee, 0
InClosest(t) ==
    /\ pc[t] = "in_closest"
    /\ LET a == GYGetClosestInput(order, order.fee, frame[t].amount + frame[t].fee)
           r == [err |-> "none", unit |-> OrderInUnit(order), qty |-> a + frame[t].fee]
       IN  /\ Return(t, r)
           /\ cache' = cache \cup {[op |-> frame[t].op, arg |-> frame[t].arg, result |-> r]}
    /\ observed' = observed \cup {order.fee}
    /\ UNCHANGED << order, calls, ThreadFrame >>

\* swap_utxo: payment = self._get_closest_input(in_assets)
SwapClosest(t) ==
    /\ pc[t] = "swap_closest"
    /\ frame' = [frame EXCEPT ![t].amount =
                     GYGetClosestInput(order, order.fee, frame[t].arg.qty)]
    /\ observed' = observed \cup {order.fee}
    /\ Goto(t, "swap_fee")
    /\ UNCHANGED << order, cache, returned, calls, ThreadFrame >>

\* swap_utxo: fee = self._get_fee(payment); the rest of the method writes the
\* payment and the fee into the output and the datum it returns
SwapFee(t) ==
    /\ pc[t] = "swap_fee"
    /\ Return(t, [err |-> "none", payment |-> frame[t].amount,
                  fee |-> GYGetFee(order, order.fee, frame[t].amount)])
    /\ observed' = observed \cup {order.fee}
    /\ UNCHANGED << order, cache, calls, ThreadFrame >>

NextThreads ==
    \E t \in Threads :
        \/ Call(t)
        \/ OutClosest(t)
        \/ SaveFee(t)
        \/ ZeroFee(t)
        \/ OutSuper(t)
        \/ OutRestore(t)
        \/ InSuper(t)
        \/ InRestore(t)
        \/ InFee(t)
        \/ InClosest(t)
        \/ SwapClosest(t)
        \/ SwapFee(t)

SpecThreads == InitThreads /\ [][NextThreads]_vars

\* what a call returns when it runs alone on the order as it was parsed
PureResult(o, c) ==
    LET o0 == [o EXCEPT !.fee = GYConfiguredFee]
    IN  IF c.op = "get_amount_out"
        THEN LET r == GYGetAmountOut(o0, c.arg)
             IN  [f \in DOMAIN r \ {"state"} |-> r[f]]
        ELSE IF c.op = "get_amount_in"
        THEN LET r == GYGetAmountIn(o0, c.arg)
             IN  [f \in DOMAIN r \ {"state"} |-> r[f]]
        ELSE LET payment == GYGetClosestInput(o0, o0.fee, c.arg.qty)
             IN  [err |-> "none", payment |-> payment,
                  fee |-> GYGetFee(o0, o0.fee, payment)]

\* C18: every fee computation on the order reads the configured fee, the fee
\* field is the configured fee whenever no call is in progress, and every
\* call returns what it returns when it runs alone on the parsed order
C18_FeePure ==
    /\ observed \subseteq {GYConfiguredFee}
    /\ (\A t \in Threads : pc[t] = "idle") => order.fee = GYConfiguredFee
    /\ \A r \in returned : r.result = PureResult(order, r)

----------------------------------------------------------------------------
(* The GeniusYield order book *)

MaxOrders == 4
MaxTime == 2

\* an order record as the chain holds it: asked for offered at price pr, off
\* still offered, valid from st to en
BookValues(asked, offered, pr, off, st, en) ==
    [cls |-> "GeniusYieldOrderState",
     dex_nft |-> Unit(GYPolicyV1, "01"),
     assets |-> << Entry(asked, 2), Entry(offered, off) >>,
     fee |-> GYConfiguredFee,
     order_datum |->
         [schema |-> "GeniusYieldOrder",
          offered_asset |-> offered, asked_asset |-> asked,
          offered_amount |-> off,
          price |-> [numerator |-> pr[1], denominator |-> pr[2]],
          partial_fills |-> 0, maker_lovelace_fee |-> 1,
          contained_fee |-> [lovelaces |-> 1, offered_tokens |-> 0, asked_tokens |-> 0],
          contained_payment |-> 0,
          start_time |-> st, end_time |-> en]]

\* the records on the chain: four open orders of the pair at different
\* prices, a filled one, one that ends, one that has not begun, one of the
\* opposite direction and one of another pair
BookRecords ==
    {BookValues(Lovelace, TokA, pr, 400, NoTime, NoTime) :
         pr \in {<< 1, 1 >>, << 2, 3 >>, << 3, 1 >>, << 1, 2 >>}}
    \cup {BookValues(Lovelace, TokA, << 1, 3 >>, 0, NoTime, NoTime),
          BookValues(Lovelace, TokA, << 1, 4 >>, 400, NoTime, AtTime(1000)),
          BookValues(Lovelace, TokA, << 1, 5 >>, 400, AtTime(2000), NoTime),
          BookValues(TokA, Lovelace, << 1, 1 >>, 400, NoTime, NoTime),
          BookValues(Lovelace, TokB, << 1, 1 >>, 400, NoTime, NoTime)}

\* GeniusYieldOrderState.post_init: the inactive flag, with t what time.time()
\* returns
GYPostInitInactive(d, t) ==
    \/ d.start_time.constr = 0 /\ d.start_time.timestamp > t * 1000
    \/ d.end_time.constr = 0 /\ d.end_time.timestamp < t * 1000

RECURSIVE Gcd(_, _)
Gcd(a, b) == IF b = 0 THEN a ELSE Gcd(b, a % b)

\* price = order.price[0] / order.price[1]: the float of the quotient, which
\* for numerators and denominators of this size is one value per rational
FloatPrice(pr) ==
    LET g == Gcd(pr.numerator, pr.denominator)
    IN  [n |-> pr.numerator \div g, d |-> pr.denominator \div g]

PriceLess(p, q) == p.n * q.d < q.n * p.d

\* OrderBookOrder(price=price, quantity=int(order.available.quantity()), state=order)
OrderBookOrder(st) ==
    [price |-> FloatPrice(st.order_datum.price), quantity |-> GYAvailable(st), state |-> st]

\* a book side orders its entries by price, the lowest first, and keeps the
\* order of entries of equal price
RECURSIVE InsertByPrice(_, _)
InsertByPrice(sorted, e) ==
    IF sorted = << >> THEN << e >>
    ELSE IF PriceLess(e.price, Head(sorted).price) THEN << e >> \o sorted
    ELSE << Head(sorted) >> \o InsertByPrice(Tail(sorted), e)

RECURSIVE SortByPrice(_)
SortByPrice(es) ==
    IF es = << >> THEN << >>
    ELSE InsertByPrice(SortByPrice(SubSeq(es, 1, Len(es) - 1)), es[Len(es)])

SellOrderBook(es) == SortByPrice(es)
BuyOrderBook(es) == SortByPrice(es)

\* side[:3]
FirstThree(side) == SubSeq(side, 1, IF Len(side) < 3 THEN Len(side) ELSE 3)

IsSell(st, assets) ==
    OrderInUnit(st) = UnitAt(assets, 0) /\ OrderOutUnit(st) = UnitAt(assets, 1)
IsBuy(st, assets) ==
    OrderInUnit(st) = UnitAt(assets, 1) /\ OrderOutUnit(st) = UnitAt(assets, 0)

\* the entries get_book collects for one side, in the order of the list
RECURSIVE Collect(_, _, _)
Collect(os, assets, sell) ==
    IF os = << >> THEN << >>
    ELSE LET st == Head(os)
             rest == Collect(Tail(os), assets, sell)
         IN  IF st.inactive THEN rest
             ELSE IF IsSell(st, assets)
             THEN (IF sell THEN << OrderBookOrder(st) >> \o rest ELSE rest)
             ELSE IF IsBuy(st, assets)
             THEN (IF sell THEN rest ELSE << OrderBookOrder(st) >> \o rest)
             ELSE rest

\* GeniusYieldOrderBook.get_book(assets, orders)
GetBook(assets, os) ==
    [assets |-> assets,
     sell_book_full |-> FirstThree(SellOrderBook(Collect(os, assets, TRUE))),
     buy_book_full |-> FirstThree(BuyOrderBook(Collect(os, assets, FALSE)))]

\* the pair a book is asked for
BookPair == << Entry(Lovelace, 0), Entry(TokA, 0) >>

InitBook ==
    /\ cls = "GeniusYieldOrderState"
    /\ raw = Values(EmptyBag, Garbage, NoVal, NoVal, NoVal)
    /\ res = Pending
    /\ nftRes = Pending
    /\ res2 = Pending
    /\ pool = NoPool
    /\ ask \in {Entry(Lovelace, 1003)}
    /\ quote = Pending
    /\ IdleTrade

BookFrame == << cls, raw, res, nftRes, res2, pool, ask, quote, swapVars, quoteVars,
                scaleVars, threadVars, restVars >>

\* GeniusYieldOrderState.model_validate on a record: post_init sets the flag
\* from the clock as it is at that moment
ParseOrder ==
    /\ book = Pending
    /\ Len(orders) < MaxOrders
    /\ \E v \in BookRecords :
          orders' = Append(orders,
                           [f \in DOMAIN v \cup {"inactive"} |->
                                IF f = "inactive" THEN GYPostInitInactive(v.order_datum, now)
                                ELSE v[f]])
    /\ UNCHANGED << now, book, BookFrame >>

\* time passes
Tick ==
    /\ book = Pending
    /\ now < MaxTime
    /\ now' = now + 1
    /\ UNCHANGED << orders, book, BookFrame >>

\* GeniusYieldOrderBook.get_book(assets, orders) on the states parsed so far
GetBookCall ==
    /\ book = Pending
    /\ LET b == GetBook(BookPair, orders)
       IN  book' = [err |-> "none", assets |-> b.assets,
                    sell_book_full |-> b.sell_book_full,
                    buy_book_full |-> b.buy_book_full, block_time |-> now]
    /\ UNCHANGED << now, orders, BookFrame >>

NextBook == ParseOrder \/ Tick \/ GetBookCall

SpecBook == InitBook /\ [][NextBook]_vars

\* an order that must not be matched at time t: not yet begun, ended, or with
\* nothing left to offer
Expired(st, t) ==
    \/ st.order_datum.start_time.constr = 0 /\ st.order_datum.start_time.timestamp > t * 1000
    \/ st.order_datum.end_time.constr = 0 /\ st.order_datum.end_time.timestamp < t * 1000
Exhausted(st) == st.order_datum.offered_amount = 0
MustBeInactive(st, t) == Expired(st, t) \/ Exhausted(st)

BookEntries == {book.sell_book_full[i] : i \in 1..Len(book.sell_book_full)}
                   \cup {book.buy_book_full[i] : i \in 1..Len(book.buy_book_full)}

\* C19: the book of get_book holds, on either side, no order that has not
\* begun, has ended or has nothing left to offer
C19_NoInactiveOrderInBook ==
    book # Pending => \A e \in BookEntries : ~MustBeInactive(e.state, book.block_time)

\* the prices of the entries of a side
PricesOf(side) == [i \in 1..Len(side) |-> side[i].price]

\* the entries the orders of the list that may be matched give for one side
RECURSIVE Eligible(_, _, _, _)
Eligible(os, assets, sell, t) ==
    IF os = << >> THEN << >>
    ELSE LET st == Head(os)
             rest == Eligible(Tail(os), assets, sell, t)
         IN  IF ~MustBeInactive(st, t) /\ (IF sell THEN IsSell(st, assets) ELSE IsBuy(st, assets))
             THEN << OrderBookOrder(st) >> \o rest
             ELSE rest

\* C20: the sell side holds only orders that take unit 0 and give unit 1, the
\* buy side only orders that take unit 1 and give unit 0, and each side is
\* the three best-priced of the orders of its direction that may be matched
C20_SidesPartitionedAndBest ==
    book # Pending =>
        /\ \A i \in 1..Len(book.sell_book_full) :
              IsSell(book.sell_book_full[i].state, book.assets)
        /\ \A i \in 1..Len(book.buy_book_full) :
              IsBuy(book.buy_book_full[i].state, book.assets)
        /\ Len(book.sell_book_full) <= 3
        /\ Len(book.buy_book_full) <= 3
        /\ PricesOf(book.sell_book_full) =
               PricesOf(FirstThree(SortByPrice(Eligible(orders, book.assets, TRUE,
                                                        book.block_time))))
        /\ PricesOf(book.buy_book_full) =
               PricesOf(FirstThree(SortByPrice(Eligible(orders, book.assets, FALSE,
                                                        book.block_time))))

----------------------------------------------------------------------------
(* GeniusYieldOrderBook.swap_utxo: matching a request against a side *)

MaxBookLen == 3

IsFeeDatum(d) == d # None /\ d.schema = "GeniusYieldFeeDatum"

\* dict.update
DictUpdate(a, b) == {e \in a : \A f \in b : f.ref # e.ref} \cup b

\* the side of the book the request is matched against
GYBookSide(b, in_assets) ==
    IF in_assets.unit = UnitAt(b.assets, 0) THEN b.sell_book_full ELSE b.buy_book_full

\* the head of the loop body: the output of the previous visit becomes the
\* fee output, or is added to it
GYBookCarry(ft, fd, t, d, reds) ==
    IF t = None THEN [err |-> "none", fee_txo |-> ft, fee_datum |-> fd, minting |-> reds]
    ELSE IF ft = None THEN [err |-> "none", fee_txo |-> t, fee_datum |-> d, minting |-> reds]
    ELSE LET sum == [ft EXCEPT !.assets = AssetsAdd(@, t.assets)]
         IN  IF ~IsFeeDatum(fd) \/ ~IsFeeDatum(d)
             THEN [err |-> "AttributeError", fee_txo |-> sum, fee_datum |-> fd,
                   minting |-> reds]
             ELSE IF reds = << >>
             THEN [err |-> "IndexError", fee_txo |-> sum,
                   fee_datum |-> [fd EXCEPT !.fees = DictUpdate(@, d.fees)],
                   minting |-> reds]
             ELSE [err |-> "none", fee_txo |-> sum,
                   fee_datum |-> [fd EXCEPT !.fees = DictUpdate(@, d.fees)],
                   minting |-> SubSeq(reds, 1, Len(reds) - 1)]

\* order_out, order_in and the order's swap_utxo for what is left of the
\* request
GYBookFill(st, total) ==
    With(GYGetAmountOut(st, total), LAMBDA o :
        IF o.err # "none" THEN [err |-> o.err]
        ELSE With(GYGetAmountIn(o.state, Entry(o.unit, o.qty)), LAMBDA i :
            IF i.err # "none" THEN [err |-> i.err]
            ELSE With(GYSwapUtxo(i.state, Entry(i.unit, i.qty), Entry(o.unit, o.qty)),
                      LAMBDA r :
                          [err |-> r.err,
                           order_in |-> Entry(i.unit, i.qty),
                           order_out |-> Entry(o.unit, o.qty),
                           swap |-> r])))

\* the datum the order's swap_utxo returns, as a value; the fees of a fee
\* datum are the dict {pay_datum: asset_dict}, and pay_datum is the reference
\* of the order's own ledger output, which is ref
GYFillDatum(r, ref) ==
    IF r.partial THEN r.heap[r.datum]
    ELSE [schema |-> "GeniusYieldFeeDatum",
          fees |-> {[ref |-> ref, value |-> r.heap[r.datum].fees]}]

\* once there is a fee output, the new output and a live order's datum lose
\* 1 ADA
GYBookDiscount(ft, t, d) ==
    IF ft = None THEN [txo |-> t, datum |-> d]
    ELSE [txo |-> [t EXCEPT !.assets = AddQty(@, Lovelace, -1000000)],
          datum |-> IF IsFeeDatum(d) THEN d
                    ELSE [d EXCEPT !.contained_fee.lovelaces = @ - 1000000]]

\* in_total.quantity() <= state.price[0] / state.price[1]
GYBookStop(total, st) ==
    total.qty * st.order_datum.price.denominator <= st.order_datum.price.numerator

\* after the loop: the last fee output joins the fee output and is returned,
\* or the fee output is added to the transaction and the live order returned
GYBookFinish(ft, fd, t, d, tb) ==
    IF ft = None THEN [err |-> "none", txo |-> t, datum |-> d, tx_builder |-> tb,
                       fee_txo |-> ft, fee_datum |-> fd]
    ELSE IF IsFeeDatum(d)
    THEN LET sum == [ft EXCEPT !.assets = AssetsAdd(@, t.assets)]
         IN  IF ~IsFeeDatum(fd)
             THEN [err |-> "AttributeError", txo |-> t, datum |-> d, tx_builder |-> tb,
                   fee_txo |-> sum, fee_datum |-> fd]
             ELSE LET merged == [fd EXCEPT !.fees = DictUpdate(@, d.fees)]
                  IN  IF tb.minting = << >>
                      THEN [err |-> "IndexError", txo |-> t, datum |-> d,
                            tx_builder |-> tb, fee_txo |-> sum, fee_datum |-> merged]
                      ELSE [err |-> "none", txo |-> sum, datum |-> merged,
                            tx_builder |->
                                [tb EXCEPT !.minting = SubSeq(@, 1, Len(@) - 1)],
                            fee_txo |-> sum, fee_datum |-> merged]
    ELSE [err |-> "none", txo |-> t, datum |-> d,
          tx_builder |-> [tb EXCEPT !.outputs = Append(@, [txo |-> ft, datum |-> fd])],
          fee_txo |-> ft, fee_datum |-> fd]

\* what the order's swap_utxo does to the transaction builder
GYBuilderAfter(tb, r) ==
    [minting |-> tb.minting \o r.minting,
     mint |-> IF r.mint = << >> THEN tb.mint
              ELSE IF tb.mint = << >> THEN r.mint ELSE AssetsAdd(tb.mint, r.mint),
     inputs |-> Append(tb.inputs, r.redeemer),
     outputs |-> tb.outputs \o [k \in 1..Len(r.paid) |-> [txo |-> r.paid[k], datum |-> None]]]

\* a parsed order state that is active
ActiveOrder(v) ==
    [f \in DOMAIN v \cup {"inactive"} |-> IF f = "inactive" THEN FALSE ELSE v[f]]

\* the orders on the chain: TokA for lovelace at 1.00, 1.02 and 1.05 with 100,
\* 50 and 200 left, at prices below one, of the later contract version, and
\* one of the opposite direction
MatchRecords ==
    {ActiveOrder(BookValues(Lovelace, TokA, << 1, 1 >>, 100, NoTime, NoTime)),
     ActiveOrder(BookValues(Lovelace, TokA, << 51, 50 >>, 50, NoTime, NoTime)),
     ActiveOrder(BookValues(Lovelace, TokA, << 21, 20 >>, 200, NoTime, NoTime)),
     ActiveOrder(BookValues(Lovelace, TokA, << 1, 2 >>, 400, NoTime, NoTime)),
     ActiveOrder(BookValues(Lovelace, TokA, << 2, 3 >>, 2, NoTime, NoTime)),
     [ActiveOrder(BookValues(Lovelace, TokA, << 2, 1 >>, 400, NoTime, NoTime))
          EXCEPT !.dex_nft = Unit(GYPolicyV11, "01")],
     ActiveOrder(BookValues(TokA, Lovelace, << 1, 1 >>, 3, NoTime, NoTime))}

RECURSIVE ListsOf(_, _)
ListsOf(S, n) ==
    IF n = 0 THEN {<< >>}
    ELSE ListsOf(S, n - 1) \cup {Append(l, x) : l \in ListsOf(S, n - 1), x \in S}

MatchBooks ==
    {[err |-> "none", assets |-> GetBook(BookPair, os).assets,
      sell_book_full |-> GetBook(BookPair, os).sell_book_full,
      buy_book_full |-> GetBook(BookPair, os).buy_book_full,
      block_time |-> 0] : os \in ListsOf(MatchRecords, MaxBookLen)}

\* what is asked of the book
MatchAsks ==
    {Entry(Lovelace, q) : q \in {0, 1, 2, 5, 101, 120, 150, 334, 400, 1003}}
        \cup {Entry(TokA, q) : q \in {1, 3}}

InitMatch ==
    /\ cls = "GeniusYieldOrderState"
    /\ raw = Values(EmptyBag, Garbage, NoVal, NoVal, NoVal)
    /\ res = Pending
    /\ nftRes = Pending
    /\ res2 = Pending
    /\ pool = NoPool
    /\ ask \in MatchAsks
    /\ quote = Pending
    /\ IdleSwap
    /\ IdleQuote
    /\ IdleScale
    /\ IdleThreads
    /\ now = 0
    /\ orders = << >>
    /\ book \in MatchBooks
    /\ mpc = "loop"
    /\ idx = 1
    /\ in_total = ask
    /\ fee_txo = None
    /\ fee_datum = None
    /\ txo = None
    /\ datum = None
    /\ tx_builder = EmptyBuilder
    /\ raised = "none"
    /\ fills = << >>
    /\ IdleCall

MatchFrame == << cls, raw, res, nftRes, res2, pool, ask, quote, swapVars, quoteVars,
                 scaleVars, threadVars, bookVars, callVars >>

\* the loop is left without visiting an order: the side has no order left
MatchExhausted ==
    /\ mpc = "loop"
    /\ raised = "none"
    /\ idx > Len(GYBookSide(book, ask))
    /\ mpc' = "after"
    /\ UNCHANGED << idx, in_total, fee_txo, fee_datum, txo, datum, tx_builder, raised,
                    fills, MatchFrame >>

\* one pass of the loop body, on the next order of the side
MatchOrder ==
    /\ mpc = "loop"
    /\ raised = "none"
    /\ idx <= Len(GYBookSide(book, ask))
    /\ \E st \in {GYBookSide(book, ask)[idx].state} :
       \E c \in {GYBookCarry(fee_txo, fee_datum, txo, datum, tx_builder.minting)} :
       \E f \in {GYBookFill(st, in_total)} :
           /\ fee_txo' = c.fee_txo
           /\ fee_datum' = c.fee_datum
           /\ IF c.err # "none"
              THEN /\ raised' = c.err
                   /\ tx_builder' = [tx_builder EXCEPT !.minting = c.minting]
                   /\ UNCHANGED << mpc, idx, in_total, txo, datum, fills >>
              ELSE IF f.err # "none"
              THEN /\ raised' = f.err
                   /\ tx_builder' = [tx_builder EXCEPT !.minting = c.minting]
                   /\ UNCHANGED << mpc, idx, in_total, txo, datum, fills >>
              ELSE \E r \in {f.swap} :
                   \E g \in {GYBookDiscount(c.fee_txo,
                                            [address |-> r.txo.address,
                                             assets |-> r.txo.assets],
                                            GYFillDatum(r, idx))} :
                   \E left \in {Entry(in_total.unit, in_total.qty - f.order_in.qty)} :
                       /\ txo' = g.txo
                       /\ datum' = g.datum
                       /\ tx_builder' =
                              GYBuilderAfter([tx_builder EXCEPT !.minting = c.minting], r)
                       /\ in_total' = left
                       /\ fills' = Append(fills,
                              [order |-> idx, available |-> GYAvailable(st),
                               order_in |-> f.order_in.qty, order_out |-> f.order_out.qty,
                               swap |-> [x \in DOMAIN r \ {"heap"} |-> r[x]],
                               emitted |-> r.heap[r.datum], before |-> in_total.qty,
                               left |-> left.qty, stop |-> GYBookStop(left, st)])
                       /\ idx' = idx + 1
                       /\ mpc' = IF GYBookStop(left, st) THEN "after" ELSE "loop"
                       /\ raised' = "none"
    /\ UNCHANGED MatchFrame

\* the statements after the loop, and the return
MatchReturn ==
    /\ mpc = "after"
    /\ raised = "none"
    /\ \E e \in {GYBookFinish(fee_txo, fee_datum, txo, datum, tx_builder)} :
           /\ fee_txo' = e.fee_txo
           /\ fee_datum' = e.fee_datum
           /\ txo' = e.txo
           /\ datum' = e.datum
           /\ tx_builder' = e.tx_builder
           /\ raised' = e.err
           /\ mpc' = IF e.err = "none" THEN "done" ELSE mpc
    /\ UNCHANGED << idx, in_total, fills, MatchFrame >>

NextMatch == MatchExhausted \/ MatchOrder \/ MatchReturn

SpecMatch == InitMatch /\ [][NextMatch]_vars

\* C21: at every order the loop visits, what is left of the request after
\* the order's input is taken is not negative, what is taken out of the
\* order is at most what the order still offers, and a re-emitted order
\* offers no negative amount
C21_FillConservation ==
    \A k \in 1..Len(fills) :
        /\ fills[k].left >= 0
        /\ fills[k].order_out <= fills[k].available
        /\ fills[k].swap.partial => fills[k].emitted.offered_amount >= 0

\* the book of three orders offering 100, 50 and 200 tokenA at 1.00, 1.02 and
\* 1.05 lovelace, asked to match 120 lovelace, after the call returned
ScenarioMatched ==
    /\ mpc = "done"
    /\ ask = Entry(Lovelace, 120)
    /\ Len(book.sell_book_full) = 3
    /\ \A i \in 1..3 :
          /\ book.sell_book_full[i].quantity = << 100, 50, 200 >>[i]
          /\ book.sell_book_full[i].price =
                 << [n |-> 1, d |-> 1], [n |-> 51, d |-> 50], [n |-> 21, d |-> 20] >>[i]

\* what the second order of the scenario still offers in the datum the call
\* re-emits it with
ScenarioSecondLeft(n) ==
    /\ Len(fills) = 2
    /\ ~fills[1].swap.partial
    /\ fills[1].order_out = 100
    /\ fills[2].swap.partial
    /\ fills[2].emitted.offered_amount = n
    /\ datum.schema = "GeniusYieldOrder"
    /\ datum.offered_amount = n

\* each visit of an order fills it in part exactly when less is taken than it
\* offers: then the redeemer is the submit redeemer with the amount taken,
\* the order is re-emitted at the order address offering that much less with
\* one more partial fill, and nothing is burned or paid; otherwise the
\* redeemer is the complete redeemer, one identity token is burned and the
\* owner is paid
FillKinds ==
    \A k \in 1..Len(fills) :
        LET f == fills[k]
            st == GYBookSide(book, ask)[f.order].state
        IN  IF f.order_out < f.available
            THEN /\ f.swap.partial
                 /\ f.swap.redeemer = [schema |-> "GeniusSubmitRedeemer",
                                       spend_amount |-> f.order_out]
                 /\ f.swap.txo.address = "order"
                 /\ f.emitted.schema = "GeniusYieldOrder"
                 /\ f.emitted.offered_amount = st.order_datum.offered_amount - f.order_out
                 /\ f.emitted.partial_fills = st.order_datum.partial_fills + 1
                 /\ f.swap.mint = << >>
                 /\ f.swap.paid = << >>
            ELSE /\ ~f.swap.partial
                 /\ f.swap.redeemer = [schema |-> "GeniusCompleteRedeemer"]
                 /\ f.swap.mint = Single(st.dex_nft, -1)
                 /\ Len(f.swap.paid) = 1
                 /\ f.swap.paid[1].address = "owner"

CompleteFills == {k \in 1..Len(fills) : ~fills[k].swap.partial}

\* the lovelace of the fee outputs the orders of the visits in K returned
RECURSIVE FeeLovelace(_)
FeeLovelace(K) ==
    IF K = {} THEN 0
    ELSE LET k == CHOOSE x \in K : TRUE
         IN  Get(fills[k].swap.txo.assets, Lovelace) + FeeLovelace(K \ {k})

\* the outputs at the fee address the call added to the transaction
FeeOutputsAdded ==
    {i \in 1..Len(tx_builder.outputs) : tx_builder.outputs[i].txo.address = "fee"}

\* an output and its datum are the one fee payment of the visits in K
IsAggregate(out, d, K) ==
    /\ out.address = "fee"
    /\ IsFeeDatum(d)
    /\ Get(out.assets, Lovelace) = FeeLovelace(K) - 1000000 * (Cardinality(K) - 1)
    /\ {e.ref : e \in d.fees} = {fills[k].order : k \in K}

\* C23: the call does not fail while it gathers the fees, and when it has
\* returned, the fees of the completely filled orders are in one fee output
\* whose lovelace is the sum of the orders' fee outputs with the extra 1 ADA
\* counted once and whose datum has one entry for each of these orders; at
\* most one minting redeemer is left; after a last partial fill the live
\* order is what is returned and the fee output was added to the transaction
\* once, and otherwise the fee output is what is returned and none was added
C23_OneFeeOutput ==
    /\ raised = "none"
    /\ mpc = "done" =>
          /\ Len(tx_builder.minting) <= 1
          /\ \A i \in 1..Len(tx_builder.outputs) :
                tx_builder.outputs[i].txo.address \in {"owner", "fee"}
          /\ IF CompleteFills = {}
             THEN /\ FeeOutputsAdded = {}
                  /\ fills # << >> => txo.address = "order"
             ELSE IF fills[Len(fills)].swap.partial
             THEN /\ txo.address = "order"
                  /\ datum.schema = "GeniusYieldOrder"
                  /\ Cardinality(FeeOutputsAdded) = 1
                  /\ \A i \in FeeOutputsAdded :
                        IsAggregate(tx_builder.outputs[i].txo, tx_builder.outputs[i].datum,
                                    CompleteFills)
             ELSE /\ FeeOutputsAdded = {}
                  /\ IsAggregate(txo, datum, CompleteFills)

\* the loop has been left
LoopLeft == mpc \in {"after", "done"}

\* the orders are visited in the order of the side, at most three of them, no
\* order is visited after one that left no more than its price of the
\* request, and the loop is left only with the side exhausted or after such
\* an order
StopsRight ==
    /\ Len(fills) <= 3
    /\ \A k \in 1..Len(fills) :
          /\ fills[k].order = k
          /\ fills[k].stop = (fills[k].left * GYBookSide(book, ask)[k].state.order_datum.price.denominator
                                  <= GYBookSide(book, ask)[k].state.order_datum.price.numerator)
          /\ fills[k].stop => k = Len(fills)
    /\ LoopLeft =>
          \/ Len(fills) = Len(GYBookSide(book, ask))
          \/ fills # << >> /\ fills[Len(fills)].stop

\* C28: the matching loop visits the orders of the side in order, at most
\* three of them, and ends only by being left, which it is as soon as what is
\* left of the request is no more than the price of the order just visited
\* or the side is exhausted; each pass moves to the next order, so a loop
\* that ends only by being left is left after at most three passes
C28_LoopStops ==
    /\ StopsRight
    /\ idx = Len(fills) + 1
    /\ LoopLeft \/ raised = "none"

----------------------------------------------------------------------------
(* WingRiders: batcher fee and deposit of the pool states, requested amount *)
(* and order type of the order datums                                       *)

WRStateClasses == {"WingRidersCPPState", "WingRidersSSPState",
                   "WingRidersV2CPPState", "WingRidersV2SSPState"}
WRV2Classes == {"WingRidersV2CPPState", "WingRidersV2SSPState"}

\* the class attributes _batcher and _deposit, in lovelace
WRBatcher(c) == IF c = "WingRidersSSPState" THEN 1500000 ELSE 2000000
WRDeposit(c) == 2000000

\* what batcher_fee returns when no tier applies: self._batcher in the first
\* version, Assets(lovelace=2000000) in the second
WRAboveTiers(c, in_assets, out_assets) ==
    IF c \in WRV2Classes THEN 2000000 ELSE WRBatcher(c)

\* batcher_fee(in_assets, out_assets), in lovelace
WRBatcherFee(c, in_assets, out_assets) ==
    LET merged_assets == AssetsAdd(in_assets, out_assets)
    IN  IF Has(merged_assets, Lovelace) /\ Get(merged_assets, Lovelace) <= 250000000
        THEN 850000
        ELSE IF Has(merged_assets, Lovelace) /\ Get(merged_assets, Lovelace) <= 500000000
        THEN 1500000
        ELSE WRAboveTiers(c, in_assets, out_assets)

\* deposit(in_assets, out_assets), in lovelace
WRDepositFor(c, in_assets, out_assets) ==
    IF Has(AssetsAdd(in_assets, out_assets), Lovelace)
    THEN 4000000 - WRBatcherFee(c, in_assets, out_assets)
    ELSE WRDeposit(c)

\* the coin of the order output swap_utxo builds: the output holds the input
\* with the batcher fee and the deposit
WROrderCoin(c, in_assets, out_assets) ==
    LET order_assets ==
            AssetsAdd(AssetsAdd(in_assets,
                                Single(Lovelace, WRBatcherFee(c, in_assets, out_assets))),
                      Single(Lovelace, WRDepositFor(c, in_assets, out_assets)))
    IN  Get(order_assets, Lovelace)

\* the unit "lp"
LpUnit == Unit("", "lp")

\* AssetClass.assets.unit() of the first-version datum: "lovelace" for the
\* empty policy, the policy followed by the asset name otherwise
WRAssetUnit(a) == IF a.policy = "" THEN Lovelace ELSE Unit(a.policy, a.asset_name)

\* AssetClass.from_assets
WRAssetClass(u) ==
    IF u = Lovelace THEN [policy |-> "", asset_name |-> ""]
    ELSE [policy |-> u.policy, asset_name |-> u.name]

\* the unit the second-version datum spells with a symbol and a token name
WRV2UnitA(d) == IF d.asset_a_symbol = "" THEN Lovelace ELSE Unit(d.asset_a_symbol, d.asset_a_token)
WRV2UnitB(d) == Unit(d.asset_b_symbol, d.asset_b_token)

\* WingRidersOrderDatum.requested_amount
WRRequestedAmount(d) ==
    CASE d.detail.schema = "WingRidersDepositDetail" ->
             [err |-> "none", value |-> Single(LpUnit, d.detail.min_lp_receive)]
      [] d.detail.schema = "WingRidersOrderDetail" ->
             [err |-> "none",
              value |-> IF d.detail.direction = "BtoA"
                        THEN Single(WRAssetUnit(d.config.assets.asset_a), d.detail.min_receive)
                        ELSE Single(WRAssetUnit(d.config.assets.asset_b), d.detail.min_receive)]
      [] d.detail.schema = "WingRidersWithdrawDetail" ->
             [err |-> "none",
              value |-> << Entry(WRAssetUnit(d.config.assets.asset_a), d.detail.min_amount_a),
                           Entry(WRAssetUnit(d.config.assets.asset_b), d.detail.min_amount_b) >>]
      [] d.detail.schema = "WingRidersMaybeFeeClaimDetail" ->
             [err |-> "none", value |-> EmptyBag]
      [] OTHER -> [err |-> "none", value |-> None]

\* WingRidersOrderDatum.order_type
WROrderType(d) ==
    CASE d.detail.schema = "WingRidersOrderDetail" -> "swap"
      [] d.detail.schema = "WingRidersDepositDetail" -> "deposit"
      [] d.detail.schema = "WingRidersWithdrawDetail" -> "withdraw"
      [] OTHER -> "None"

\* WingRidersV2OrderDatum.requested_amount: the withdraw branch reads
\* self.config and self.action.min_amount_a, which the datum and the action
\* do not have
WRV2RequestedAmount(d) ==
    CASE d.action.schema = "AddLiquidityAction" ->
             [err |-> "none", value |-> Single(LpUnit, d.action.minimum_receive)]
      [] d.action.schema = "SwapAction" ->
             [err |-> "none",
              value |-> IF d.action.swap_direction = "BtoA"
                        THEN Single(WRV2UnitA(d), d.action.minimum_receive)
                        ELSE Single(WRV2UnitB(d), d.action.minimum_receive)]
      [] d.action.schema = "WithdrawLiquidityAction" ->
             IF "config" \in DOMAIN d /\ "min_amount_a" \in DOMAIN d.action
                                      /\ "min_amount_b" \in DOMAIN d.action
             THEN [err |-> "none",
                   value |-> << Entry(WRAssetUnit(d.config.assets.asset_a),
                                      d.action.min_amount_a),
                                Entry(WRAssetUnit(d.config.assets.asset_b),
                                      d.action.min_amount_b) >>]
             ELSE [err |-> "AttributeError"]
      [] OTHER -> [err |-> "none", value |-> None]

\* WingRidersV2OrderDatum.order_type
WRV2OrderType(d) ==
    CASE d.action.schema = "SwapAction" -> "swap"
      [] d.action.schema = "AddLiquidityAction" -> "deposit"
      [] d.action.schema = "WithdrawLiquidityAction" -> "withdraw"
      [] OTHER -> "None"

\* the lovelace amounts of the trades: the tier limits, their neighbours and
\* the amounts of the test
WRAmounts == {1000000, 250000000, 250000001, 500000000, 500000001, 1000000000}

\* trades of an ADA pair in either direction, and of a pair without ADA
WRTrades ==
    {[in_assets |-> Single(Lovelace, q), out_assets |-> Single(TokA, 5)] : q \in WRAmounts}
        \cup {[in_assets |-> Single(TokA, 5), out_assets |-> Single(Lovelace, q)] :
                  q \in WRAmounts}
        \cup {[in_assets |-> Single(TokA, 5), out_assets |-> Single(TokB, 5)]}

WRMinimums == {0, 7}
WRAssetPairs == {<< Lovelace, TokA >>, << TokA, TokB >>}

\* the details of the first-version datum
WRDetails ==
    {[schema |-> "WingRidersOrderDetail", direction |-> dir, min_receive |-> q] :
         dir \in {"AtoB", "BtoA"}, q \in WRMinimums}
        \cup {[schema |-> "WingRidersDepositDetail", min_lp_receive |-> q] : q \in WRMinimums}
        \cup {[schema |-> "WingRidersWithdrawDetail", min_amount_a |-> q, min_amount_b |-> r] :
                  q \in WRMinimums, r \in WRMinimums}
        \cup {[schema |-> "WingRidersMaybeFeeClaimDetail"],
              [schema |-> "WingRidersStakeRewardDetail"]}

\* the actions of the second-version datum
WRActions ==
    {[schema |-> "SwapAction", swap_direction |-> dir, minimum_receive |-> q] :
         dir \in {"AtoB", "BtoA"}, q \in WRMinimums}
        \cup {[schema |-> "AddLiquidityAction", minimum_receive |-> q] : q \in WRMinimums}
        \cup {[schema |-> "WithdrawLiquidityAction",
               minimum_receive_a |-> q, minimum_receive_b |-> r] :
                  q \in WRMinimums, r \in WRMinimums}
        \cup {[schema |-> "WithdrawProjectAction"], [schema |-> "WithdrawProtocolAction"]}

WROrderDatums ==
    {[schema |-> "WingRidersOrderDatum",
      config |-> [assets |-> [asset_a |-> WRAssetClass(pr[1]),
                              asset_b |-> WRAssetClass(pr[2])]],
      detail |-> dt] : pr \in WRAssetPairs, dt \in WRDetails}
        \cup {[schema |-> "WingRidersV2OrderDatum",
               asset_a_symbol |-> pr[1].policy,
               asset_a_token |-> IF pr[1] = Lovelace THEN "" ELSE pr[1].name,
               asset_b_symbol |-> pr[2].policy, asset_b_token |-> pr[2].name,
               action |-> ac] : pr \in WRAssetPairs, ac \in WRActions}

WRArgs ==
    {[op |-> o, cls |-> c, in_assets |-> t.in_assets, out_assets |-> t.out_assets] :
         o \in {"batcher_fee", "deposit", "swap_utxo"}, c \in WRStateClasses, t \in WRTrades}
        \cup {[op |-> o, datum |-> d] :
                  o \in {"requested_amount", "order_type"}, d \in WROrderDatums}

\* the records, pools and books are not part of these calls
NoRecords ==
    /\ raw = Values(EmptyBag, Garbage, NoVal, NoVal, NoVal)
    /\ res = Pending
    /\ nftRes = Pending
    /\ res2 = Pending
    /\ pool = NoPool
    /\ ask = NoAsk
    /\ quote = Pending
    /\ IdleSwap
    /\ IdleQuote
    /\ IdleScale
    /\ IdleThreads
    /\ IdleBook
    /\ IdleMatch

InitWR ==
    /\ cls = "WingRidersCPPState"
    /\ NoRecords
    /\ arg \in WRArgs
    /\ ret = Pending

CallFrame == << cls, raw, res, nftRes, res2, pool, ask, quote, swapVars, quoteVars,
                scaleVars, threadVars, bookVars, matchVars >>

\* pool.batcher_fee(in_assets, out_assets)
BatcherFee ==
    /\ arg.op = "batcher_fee"
    /\ ret = Pending
    /\ ret' = [err |-> "none",
               value |-> Single(Lovelace, WRBatcherFee(arg.cls, arg.in_assets, arg.out_assets))]
    /\ UNCHANGED << arg, CallFrame >>

\* pool.deposit(in_assets, out_assets)
Deposit ==
    /\ arg.op = "deposit"
    /\ ret = Pending
    /\ ret' = [err |-> "none",
               value |-> Single(Lovelace, WRDepositFor(arg.cls, arg.in_assets, arg.out_assets))]
    /\ UNCHANGED << arg, CallFrame >>

\* pool.swap_utxo(address_source, in_assets, out_assets): the coin of the
\* order output
OrderCoin ==
    /\ arg.op = "swap_utxo"
    /\ ret = Pending
    /\ ret' = [err |-> "none", coin |-> WROrderCoin(arg.cls, arg.in_assets, arg.out_assets)]
    /\ UNCHANGED << arg, CallFrame >>

\* datum.requested_amount()
RequestedAmount ==
    /\ arg.op = "requested_amount"
    /\ ret = Pending
    /\ ret' = IF arg.datum.schema = "WingRidersOrderDatum"
              THEN WRRequestedAmount(arg.datum)
              ELSE WRV2RequestedAmount(arg.datum)
    /\ UNCHANGED << arg, CallFrame >>

\* datum.order_type()
OrderTypeCall ==
    /\ arg.op = "order_type"
    /\ ret = Pending
    /\ ret' = [err |-> "none",
               value |-> IF arg.datum.schema = "WingRidersOrderDatum"
                         THEN WROrderType(arg.datum)
                         ELSE WRV2OrderType(arg.datum)]
    /\ UNCHANGED << arg, CallFrame >>

NextWR == BatcherFee \/ Deposit \/ OrderCoin \/ RequestedAmount \/ OrderTypeCall

SpecWR == InitWR /\ [][NextWR]_vars

\* the lovelace amount of a trade of an ADA pair
TradeLovelace(a) == Get(AssetsAdd(a.in_assets, a.out_assets), Lovelace)
IsAdaPair(a) == Has(AssetsAdd(a.in_assets, a.out_assets), Lovelace)

\* the tiers as the claim gives them
TierFee(q) == IF q <= 250000000 THEN 850000 ELSE IF q <= 500000000 THEN 1500000 ELSE 2000000

\* C24: for a trade of an ADA pair the batcher fee is 850,000 up to
\* 250,000,000 lovelace, 1,500,000 up to 500,000,000 and 2,000,000 above, the
\* deposit is 4,000,000 less the batcher fee, and the coin of the order
\* output of a trade that pays lovelace is the amount paid plus the batcher
\* fee plus the deposit
C24_TieredBatcherFee ==
    (ret # Pending /\ arg.op \in {"batcher_fee", "deposit", "swap_utxo"} /\ IsAdaPair(arg)) =>
        LET fee == TierFee(TradeLovelace(arg))
        IN  CASE arg.op = "batcher_fee" -> ret.value = Single(Lovelace, fee)
              [] arg.op = "deposit" -> ret.value = Single(Lovelace, 4000000 - fee)
              [] arg.op = "swap_utxo" ->
                     Has(arg.in_assets, Lovelace) =>
                         ret.coin = Get(arg.in_assets, Lovelace) + fee + (4000000 - fee)

\* the variant of an order datum of either version, its two units and its
\* minimums
IsV1Datum(d) == d.schema = "WingRidersOrderDatum"
VariantOf(d) == IF IsV1Datum(d) THEN d.detail ELSE d.action
KindOf(d) ==
    CASE VariantOf(d).schema \in {"WingRidersOrderDetail", "SwapAction"} -> "swap"
      [] VariantOf(d).schema \in {"WingRidersDepositDetail", "AddLiquidityAction"} -> "deposit"
      [] VariantOf(d).schema \in {"WingRidersWithdrawDetail", "WithdrawLiquidityAction"} ->
             "withdraw"
      [] OTHER -> "None"
UnitAOf(d) == IF IsV1Datum(d) THEN WRAssetUnit(d.config.assets.asset_a) ELSE WRV2UnitA(d)
UnitBOf(d) == IF IsV1Datum(d) THEN WRAssetUnit(d.config.assets.asset_b) ELSE WRV2UnitB(d)
DirectionOf(d) == IF IsV1Datum(d) THEN d.detail.direction ELSE d.action.swap_direction
MinimumOf(d) ==
    CASE VariantOf(d).schema = "WingRidersOrderDetail" -> d.detail.min_receive
      [] VariantOf(d).schema = "WingRidersDepositDetail" -> d.detail.min_lp_receive
      [] OTHER -> d.action.minimum_receive
MinimumPairOf(d) ==
    IF IsV1Datum(d) THEN << d.detail.min_amount_a, d.detail.min_amount_b >>
    ELSE << d.action.minimum_receive_a, d.action.minimum_receive_b >>

\* C25: requested_amount of an order datum of either version returns, for a
\* swap, the minimum to receive in the unit bought (asset A for BtoA, asset B
\* for AtoB), for a deposit the minimum of LP tokens, for a withdraw the
\* minimums of asset A and asset B, and nothing for any other action; and
\* order_type returns swap, deposit, withdraw or None for the same variants
C25_RequestedAmount ==
    (ret # Pending /\ arg.op \in {"requested_amount", "order_type"}) =>
        LET d == arg.datum
        IN  /\ ret.err = "none"
            /\ arg.op = "order_type" => ret.value = KindOf(d)
            /\ arg.op = "requested_amount" =>
                  CASE KindOf(d) = "swap" ->
                           ret.value = Single(IF DirectionOf(d) = "BtoA" THEN UnitAOf(d)
                                              ELSE UnitBOf(d), MinimumOf(d))
                    [] KindOf(d) = "deposit" -> ret.value = Single(LpUnit, MinimumOf(d))
                    [] KindOf(d) = "withdraw" ->
                           ret.value = << Entry(UnitAOf(d), MinimumPairOf(d)[1]),
                                          Entry(UnitBOf(d), MinimumPairOf(d)[2]) >>
                    [] OTHER -> ret.value \in {EmptyBag, None}

----------------------------------------------------------------------------
(* SplashBaseState.skip_init called on a record *)

\* what the caller supplies as pool_nft and lp_tokens: nothing, one of the
\* two, both, and both with a unit the datum does not declare
SkipSupplied ==
    {<< n, l >> : n \in {NoVal, Single(SNft, 1), Single(SNft2, 1), Single(TokA, 1)},
                  l \in {NoVal, Single(SLp, LpQty), Single(TokA, 1)}}

SkipRecords(c) ==
    {Values(MkBag(<< Entry(Lovelace, 3000001), Entry(TokA, t), Entry(SLp, lp),
                     Entry(SNft, n1) >>),
            blob, sup[1], sup[2], NoVal) :
        t \in 0..1, lp \in {0, LpQty}, n1 \in 0..1,
        blob \in SplashBlobs(c), sup \in SkipSupplied}

InitSkip ==
    /\ cls \in SplashClasses
    /\ raw \in SkipRecords(cls)
    /\ res = Pending
    /\ nftRes = Pending
    /\ res2 = Pending
    /\ pool = NoPool
    /\ ask = NoAsk
    /\ quote = Pending
    /\ IdleTrade
    /\ ret = Pending

\* cls.skip_init(values)
SkipInitCall ==
    /\ ret = Pending
    /\ ret' = SplashSkipInit(cls, raw)
    /\ UNCHANGED << arg, CallFrame >>

NextSkip == SkipInitCall

SpecSkip == InitSkip /\ [][NextSkip]_vars

BothSupplied(v) == v.pool_nft # NoVal /\ v.lp_tokens # NoVal

Decodes(c, v) == v.datum_cbor.schema = SplashPoolDatumClass(c)

\* the units the datum declares are among the supplied tokens
DeclaredAreMembers(v) ==
    /\ \E i \in 1..Len(v.pool_nft) : v.pool_nft[i].unit = v.datum_cbor.pool_nft
    /\ \E i \in 1..Len(v.lp_tokens) : v.lp_tokens[i].unit = v.datum_cbor.lp_token

----------------------------------------------------------------------------
(* The replacement amount of SplashCPPState.get_amount_out *)

\* floor(a / b) for b # 0
Floor(a, b) == IF b > 0 THEN a \div b ELSE (-a) \div (-b)

\* the provisional amount of the quote passed both inequalities
ProvisionalPassed ==
    SplashInvariantOk(ask.qty, -quote.provisional, quote.rx, quote.ry, quote.fee)

\* C27: when the provisional amount fails the check, the amount returned in
\* its place is not larger than the provisional amount and is
\* floor(ry * dxf / (rx * 100000 + dxf)); when the provisional amount passes
\* both inequalities it is returned unchanged.
C27_ClampIsFloor ==
    (quote # Pending /\ quote.err = "none") =>
        LET dxf == ask.qty * quote.fee
        IN  IF ProvisionalPassed
            THEN quote.qty = quote.provisional
            ELSE /\ quote.qty <= quote.provisional
                 /\ quote.qty = Floor(quote.ry * dxf, quote.rx * 100000 + dxf)

----------------------------------------------------------------------------
(* Djed: DjedRational and the amounts computed with it *)

\* largest amount of an order action and largest numerator of a rational
MaxDjed == 4
MaxNum == 4

DjedUnit == Unit("djed_policy_id", "djed_token_name")
ShenUnit == Unit("shen_policy_id", "shen_token_name")

\* fractions.Fraction(n, d), d # 0: lowest terms, the sign in the numerator
Fraction(n, d) ==
    LET g == Gcd(Abs(n), Abs(d))
        sgn == IF d < 0 THEN -1 ELSE 1
    IN  [numerator |-> (sgn * n) \div g, denominator |-> Abs(d) \div g]

\* DjedRational(numerator, denominator)
DjedRational(n, d) ==
    IF d = 0 THEN [err |-> "ValueError"]
    ELSE [err |-> "none", fraction |-> Fraction(n, d)]

\* DjedRational.invert
DjedInvert(r) ==
    IF r.fraction.numerator = 0 THEN [err |-> "ValueError"]
    ELSE DjedRational(r.fraction.denominator, r.fraction.numerator)

\* DjedRational.mul
DjedMul(a, b) ==
    DjedRational(a.fraction.numerator * b.fraction.numerator,
                 a.fraction.denominator * b.fraction.denominator)

\* str(fraction): the numerator alone for a whole number, otherwise
\* numerator, a slash, denominator
StrFraction(f) ==
    IF f.denominator = 1 THEN << f.numerator >> ELSE << f.numerator, "/", f.denominator >>

\* Decimal(text): a numeral is read as its value, any other text raises
\* decimal.InvalidOperation
DecimalOfStr(text) ==
    IF Len(text) = 1 THEN [err |-> "none", value |-> text[1]]
    ELSE [err |-> "InvalidOperation"]

\* the smallest integer not below a / b
Ceiling(a, b) == -Floor(-a, b)

\* int(decimal.quantize(Decimal("1"), rounding = ...)) of a decimal with the
\* given coefficient and no fractional digits
QuantizeToInt(coefficient, mode) ==
    IF mode = "ROUND_CEILING" THEN Ceiling(coefficient, 1) ELSE Floor(coefficient, 1)

\* DjedRational.to_int
DjedToInt(r, rounding) ==
    LET decimal_val == DecimalOfStr(StrFraction(r.fraction))
    IN  IF decimal_val.err # "none" THEN [err |-> decimal_val.err]
        ELSE [err |-> "none",
              value |-> QuantizeToInt(decimal_val.value,
                                      IF rounding = "ROUND_UP" THEN "ROUND_CEILING"
                                      ELSE "ROUND_FLOOR")]

\* DjedOrderDatum.requested_amount
DjedRequestedAmount(d) ==
    CASE d.action.schema = "DjedMintAction" ->
            [err |-> "none", value |-> Single(DjedUnit, d.action.djed_amount)]
      [] d.action.schema = "DjedBurnAction" ->
            LET oracle_rate == DjedRational(d.oracle_rate.numerator, d.oracle_rate.denominator)
                inv == IF oracle_rate.err = "none" THEN DjedInvert(oracle_rate) ELSE oracle_rate
                ada_amount == IF inv.err = "none"
                              THEN DjedToInt(DjedMul(inv, DjedRational(d.action.djed_amount, 1)),
                                             "ROUND_DOWN")
                              ELSE inv
            IN  IF ada_amount.err # "none" THEN [err |-> ada_amount.err]
                ELSE [err |-> "none", value |-> Single(Lovelace, ada_amount.value)]
      [] d.action.schema = "ShenMintAction" ->
            [err |-> "none", value |-> Single(ShenUnit, d.action.shen_amount)]
      [] OTHER ->
            [err |-> "none", value |-> Single(Lovelace, d.action.shen_amount)]

\* DjedOrderState._calculate_ada_return
DjedCalculateAdaReturn(order_datum, djed_amount) ==
    LET oracle_rate == DjedRational(order_datum.oracle_rate.numerator,
                                    order_datum.oracle_rate.denominator)
        base_rate == IF oracle_rate.err = "none" THEN DjedInvert(oracle_rate) ELSE oracle_rate
    IN  IF base_rate.err # "none" THEN [err |-> base_rate.err]
        ELSE LET final_rate == DjedMul(base_rate, DjedRational(985, 1000))
             IN  DjedToInt(DjedMul(final_rate, DjedRational(djed_amount, 1)), "ROUND_DOWN")

DjedBatcherFee == 2000000
DjedMinAda == 2000000

DjedIsMint(od) == od.action.schema \in {"DjedMintAction", "ShenMintAction"}

\* the amount field of the action: djed_amount or shen_amount
DjedAmountField(od) ==
    IF od.action.schema \in {"DjedMintAction", "DjedBurnAction"} THEN od.action.djed_amount
    ELSE od.action.shen_amount

\* DjedOrderState.available / ShenOrderState.available: the quantity
DjedAvailable(c, od) ==
    CASE od.action.schema = "DjedMintAction" -> [err |-> "none", value |-> od.action.djed_amount]
      [] od.action.schema = "DjedBurnAction" ->
            DjedCalculateAdaReturn(od, od.action.djed_amount)
      [] OTHER -> [err |-> "none", value |-> od.action.shen_amount]

\* the amount the output test compares with available: out_assets for a mint
\* order, in_assets for a burn order
DjedFilled(od, in_assets, out_assets) ==
    IF DjedIsMint(od) THEN out_assets.qty ELSE in_assets.qty

\* the amount taken off the action's amount: out_assets for a mint order,
\* in_assets for a burn order
DjedTaken(od, in_assets, out_assets) ==
    IF DjedIsMint(od) THEN out_assets.qty ELSE in_assets.qty

\* DjedOrderState.swap_utxo / ShenOrderState.swap_utxo with _process_*_mint
\* and _process_*_burn: the redeemer of the script input, the minting script
\* and mint added to the builder, the output and the datum returned
DjedSwapUtxo(o, in_assets, out_assets) ==
    LET od == o.order_datum
        available == DjedAvailable(o.cls, od)
        amount == DjedAmountField(od) - DjedTaken(od, in_assets, out_assets)
        order_datum ==
            IF od.action.schema \in {"DjedMintAction", "DjedBurnAction"}
            THEN [od EXCEPT !.action.djed_amount = amount]
            ELSE [od EXCEPT !.action.shen_amount = amount]
        moved == IF DjedIsMint(od)
                 THEN AddQty(AddQty(o.assets, in_assets.unit, in_assets.qty),
                             out_assets.unit, -out_assets.qty)
                 ELSE AddQty(AddQty(o.assets, in_assets.unit, -in_assets.qty),
                             out_assets.unit, out_assets.qty)
        updated_assets == AssetsAdd(moved, Single(Lovelace, DjedBatcherFee))
        payment_assets ==
            IF DjedIsMint(od)
            THEN AssetsAdd(Single(out_assets.unit, out_assets.qty), Single(Lovelace, DjedMinAda))
            ELSE Single(Lovelace, out_assets.qty)
    IN  IF available.err # "none" THEN [err |-> available.err]
        ELSE IF ~Has(o.assets, in_assets.unit) \/ ~Has(o.assets, out_assets.unit)
        THEN [err |-> "KeyError"]
        ELSE LET redeemer == IF out_assets.qty < available.value
                             THEN [built |-> "partial", data |-> "PlutusData()"]
                             ELSE [built |-> "complete", data |-> "PlutusData()"]
             IN  IF DjedFilled(od, in_assets, out_assets) < available.value
                 THEN [err |-> "none", redeemer |-> redeemer,
                       minting |-> << >>, mint |-> None,
                       txo |-> [address |-> "order", assets |-> updated_assets,
                                datum |-> order_datum],
                       datum |-> order_datum]
                 ELSE [err |-> "none", redeemer |-> redeemer,
                       minting |-> << "PlutusData()" >>, mint |-> Single(o.dex_nft, -1),
                       txo |-> [address |-> "owner", assets |-> payment_assets, datum |-> None],
                       datum |-> order_datum]

DjedNft == Unit("djed_order_policy", "01")

\* an order state: the ADA of the order and the token of its pair
DjedOrder(c, od) ==
    [cls |-> c,
     assets |-> << Entry(Lovelace, 5000000),
                   Entry(IF c = "DjedOrderState" THEN DjedUnit ELSE ShenUnit, MaxDjed) >>,
     dex_nft |-> DjedNft,
     order_datum |-> od]

\* oracle rates, Djed per ADA: 197/200 and 197/400 make the rate after the
\* fee of 985/1000 a whole number of ADA per Djed
DjedRates ==
    {[numerator |-> r[1], denominator |-> r[2]] :
        r \in {<< 1, 1 >>, << 2, 1 >>, << 1, 2 >>, << 3, 2 >>, << 197, 200 >>, << 197, 400 >>}}

DjedActions ==
    {[schema |-> "DjedMintAction", djed_amount |-> q, ada_amount |-> q] : q \in 0..MaxDjed}
        \cup {[schema |-> "DjedBurnAction", djed_amount |-> q] : q \in 0..MaxDjed}

ShenActions ==
    {[schema |-> "ShenMintAction", shen_amount |-> q, ada_amount |-> q] : q \in 0..MaxDjed}
        \cup {[schema |-> "ShenBurnAction", shen_amount |-> q] : q \in 0..MaxDjed}

DjedDatums(actions) ==
    {[schema |-> "DjedOrderDatum", action |-> a, oracle_rate |-> r] :
        a \in actions, r \in DjedRates}

DjedArgs ==
    {[op |-> "to_int", numerator |-> n, denominator |-> d, rounding |-> m] :
        n \in (-MaxNum)..MaxNum, d \in {-2, 1, 2, 3}, m \in {"ROUND_DOWN", "ROUND_UP"}}
    \cup {[op |-> "requested_amount", datum |-> d] :
              d \in DjedDatums(DjedActions \cup ShenActions)}
    \cup {[op |-> "_calculate_ada_return", datum |-> d, djed_amount |-> d.action.djed_amount] :
              d \in {x \in DjedDatums(DjedActions) : x.action.schema = "DjedBurnAction"}}
    \cup {[op |-> "swap_utxo", order |-> DjedOrder("DjedOrderState", d),
           in_assets |-> IF DjedIsMint(d) THEN Entry(Lovelace, i) ELSE Entry(DjedUnit, i),
           out_assets |-> IF DjedIsMint(d) THEN Entry(DjedUnit, j) ELSE Entry(Lovelace, j)] :
              d \in DjedDatums(DjedActions), i \in 0..(2 * MaxDjed), j \in 0..(2 * MaxDjed)}
    \cup {[op |-> "swap_utxo", order |-> DjedOrder("ShenOrderState", d),
           in_assets |-> IF DjedIsMint(d) THEN Entry(Lovelace, i) ELSE Entry(ShenUnit, i),
           out_assets |-> IF DjedIsMint(d) THEN Entry(ShenUnit, j) ELSE Entry(Lovelace, j)] :
              d \in {x \in DjedDatums(ShenActions) : x.oracle_rate.denominator = 1},
              i \in 0..MaxDjed, j \in 0..MaxDjed}

InitDjed ==
    /\ cls = "DjedOrderState"
    /\ NoRecords
    /\ arg \in DjedArgs
    /\ ret = Pending

\* DjedRational(numerator, denominator).to_int(rounding)
ToInt ==
    /\ arg.op = "to_int"
    /\ ret = Pending
    /\ ret' = DjedToInt(DjedRational(arg.numerator, arg.denominator), arg.rounding)
    /\ UNCHANGED << arg, CallFrame >>

\* datum.requested_amount() on a Djed order datum
DjedRequestedAmountCall ==
    /\ arg.op = "requested_amount"
    /\ ret = Pending
    /\ ret' = DjedRequestedAmount(arg.datum)
    /\ UNCHANGED << arg, CallFrame >>

\* order._calculate_ada_return(djed_amount)
CalculateAdaReturn ==
    /\ arg.op = "_calculate_ada_return"
    /\ ret = Pending
    /\ ret' = DjedCalculateAdaReturn(arg.datum, arg.djed_amount)
    /\ UNCHANGED << arg, CallFrame >>

\* order.swap_utxo(address_source, in_assets, out_assets, tx_builder) on a
\* Djed or Shen order state
DjedSwapUtxoCall ==
    /\ arg.op = "swap_utxo"
    /\ ret = Pending
    /\ ret' = DjedSwapUtxo(arg.order, arg.in_assets, arg.out_assets)
    /\ UNCHANGED << arg, CallFrame >>

NextDjed == ToInt \/ DjedRequestedAmountCall \/ CalculateAdaReturn \/ DjedSwapUtxoCall

SpecDjed == InitDjed /\ [][NextDjed]_vars

\* C29: to_int gives the floor of the rational under ROUND_DOWN and the
\* ceiling under ROUND_UP, for every rational; the requested amount of a Djed
\* burn order is floor(djed_amount * denominator / numerator) lovelace and
\* _calculate_ada_return is floor(djed_amount * denominator * 985 /
\* (numerator * 1000)).
C29_ToIntFloorsAndCeils ==
    ret # Pending =>
        CASE arg.op = "to_int" ->
                /\ ret.err = "none"
                /\ ret.value = IF arg.rounding = "ROUND_UP"
                               THEN Ceiling(arg.numerator, arg.denominator)
                               ELSE Floor(arg.numerator, arg.denominator)
          [] arg.op = "requested_amount" /\ arg.datum.action.schema = "DjedBurnAction" ->
                /\ ret.err = "none"
                /\ ret.value = Single(Lovelace,
                                      Floor(arg.datum.action.djed_amount
                                                * arg.datum.oracle_rate.denominator,
                                            arg.datum.oracle_rate.numerator))
          [] arg.op = "_calculate_ada_return" ->
                /\ ret.err = "none"
                /\ ret.value = Floor(arg.djed_amount * arg.datum.oracle_rate.denominator * 985,
                                     arg.datum.oracle_rate.numerator * 1000)
          [] OTHER -> TRUE

\* the order is re-emitted: the output returned is at the order address with
\* the updated order datum, and nothing is burned
ReEmitted(r) == r.txo.address = "order" /\ r.txo.datum = r.datum /\ r.mint = None

\* the order is closed: its identity token is burned and the owner is paid
Closed(r, o) == r.txo.address = "owner" /\ r.mint = Single(o.dex_nft, -1)

\* C30: within one swap_utxo call of a Djed or Shen order the redeemer is
\* the partial one exactly when the output is the re-emitted order and the
\* complete one exactly when the token is burned and the owner is paid; the
\* order is re-emitted exactly when the amount paid out is less than the
\* available amount, both in the unit paid out; and a re-emitted order has
\* no negative amount left.
C30_FillKindConsistent ==
    (ret # Pending /\ arg.op = "swap_utxo" /\ ret.err = "none") =>
        LET o == arg.order
            available == DjedAvailable(o.cls, o.order_datum).value
        IN  /\ ret.redeemer.built = "partial" <=> ReEmitted(ret)
            /\ ret.redeemer.built = "complete" <=> Closed(ret, o)
            /\ ReEmitted(ret) <=> arg.out_assets.qty < available
            /\ ReEmitted(ret) => DjedAmountField(ret.datum) >= 0

====
